---- MODULE Spec2Model ----
(***************************************************************************)
(* DeepForge mission orchestration: the task graph (TaskGraph), and the    *)
(* mission controller (MissionController) that drives it one step at a     *)
(* time, with the persistence store and the published events it writes.    *)
(***************************************************************************)
EXTENDS Integers, Sequences, FiniteSets, TLC

\* ------------------------------------------------------------------ bounds
\* Largest number of tasks in a plan.
MaxTasks == 3
\* Largest number of dependency entries (task, dependency id) in a plan.
MaxEdges == 3
\* Largest number of controller calls (start / execute_next_step) in a run.
MaxCalls == 5
\* Largest number of start() calls among them.
MaxStarts == 1
\* Largest number of subscribe / subscribe_all calls in an event bus run.
MaxSubs == 2
\* Largest number of events published in an event bus run.
MaxEvents == 1
\* Largest number of worker threads start() creates in an event bus run.
MaxThreads == 2
\* Largest number of events published in a run of the bus with stop().
MaxQueued == 2
\* Largest number of request_approval calls in an approval engine run.
MaxRequests == 2
\* The latest time datetime.now() reaches in a consent store run.
MaxTime == 2
\* Largest number of enqueue calls in a mission queue run.
MaxEnqueues == 4
\* The highest priority a mission is enqueued with.
MaxPriority == 1
\* The largest limit set_quota is called with.
MaxLimit == 2
\* Largest number of words in an operation text given to the risk classifier.
MaxWords == 3
\* Largest number of fragments in a code sample given to the risk scorer.
MaxFragments == 3
\* Largest number of steps in a composer plan.
MaxNodes == 3
\* Largest length the files_created list of a composer node grows to.
MaxFiles == 3
\* Largest number of lines of a file a chat patch is applied to.
MaxLines == 2

\* Python's None for optional ids and timestamps (real ones are >= 1).
None == 0

VARIABLES
    tasks,        \* TaskGraph._tasks, in insertion order: task id i is tasks[i]
    mission,      \* MissionController.mission (MissionState)
    db_mission,   \* persistence store: the missions row
    db_steps,     \* persistence store: the steps rows, by step id
    published,    \* events handed to EventBus.publish, in order
    call,         \* the last controller call and what its handler did
    ret,          \* what the last controller call returned (or that it raised)
    handler_runs, \* per task id, how often _execute_task was entered for it
    clock,        \* datetime.utcnow(), one tick per controller call
    ready,        \* TaskGraph driver: the list get_ready_tasks() returned
    order,        \* get_execution_order(): the local list `order`
    gpc,          \* TaskGraph driver: position of the calling loop
    listeners,          \* EventBus._listeners: per event type, the handler list
    wildcard_listeners, \* EventBus._wildcard_listeners
    event_queue,        \* EventBus._event_queue
    dead_letter_queue,  \* EventBus._dead_letter_queue
    bus_running,        \* EventBus._running
    event_count,        \* how many events were handed to the bus so far
    delivery,           \* the last delivery: the event, the handlers invoked in
                        \* order with what each did, and whether the delivery
                        \* raised to its caller
    worker_threads,     \* every thread start() created, in order, with its
                        \* position in _worker; the last is _worker_thread
    joining,            \* a stop() call is inside _worker_thread.join
    stop_log,           \* the last stop() call: whether there was one, whether
                        \* start() was called since, and the events that were
                        \* in the queue at the stop() (and, after the start(),
                        \* were still in it then)
    auto_approve_low_risk,  \* ApprovalEngine.auto_approve_low_risk
    pending_requests,   \* ApprovalEngine._pending_requests: the requests held,
                        \* one per request id
    history,            \* ApprovalEngine._history
    request_count,      \* number of request ids issued
    consents,           \* ConsentStore._consents: the records, one per consent id
    time_now,           \* what datetime.now() returns
    mission_queue,      \* MissionQueue._queue: <<priority, mission id>> pairs
    enqueue_count,      \* number of missions enqueued; mission ids are numbered
                        \* in the order in which they are enqueued
    quotas,             \* QuotaManager._quotas
    svc_call,           \* the last call of one of these four services, with
                        \* its arguments and what it returned
    publish_log,        \* history: the id of the event last published and
                        \* the handlers that were subscribed to it when
                        \* publish was called
    allocations,        \* ResourceAllocator._allocations: the resource ids held
    arg,                \* the argument of a call of a function without state
    runner,             \* a sandbox runner: its kind and its cached
                        \* availability (_docker_available, _wsl_available)
    host,               \* the machine the runner works on: whether the engine's
                        \* binary is on the PATH, whether the engine answers,
                        \* whether the platform is Windows
    nodes,              \* ComposerEngine.nodes: per node its status, its
                        \* dependencies and its files_created list
    composer,           \* execute_plan's position, its ready_nodes still to
                        \* be executed, the node in execute_node and its
                        \* position in the file loop, the two counters
    workspace_file      \* the target file of a chat patch: its suffix and
                        \* its content, or that it does not exist

vars == <<tasks, mission, db_mission, db_steps, published, call, ret,
          handler_runs, clock, ready, order, gpc, listeners, wildcard_listeners,
          event_queue, dead_letter_queue, bus_running, event_count, delivery,
          worker_threads, joining, stop_log, publish_log, auto_approve_low_risk,
          pending_requests, history, request_count, consents, time_now,
          mission_queue, enqueue_count, quotas, svc_call, allocations, arg,
          runner, host, nodes, composer, workspace_file>>

ctlVars == <<mission, db_mission, db_steps, published, call, ret, handler_runs,
             clock>>
drvVars == <<ready, order, gpc>>
busVars == <<listeners, wildcard_listeners, event_queue, dead_letter_queue,
             bus_running, event_count, delivery, worker_threads, joining,
             stop_log, publish_log>>
approvalVars == <<auto_approve_low_risk, pending_requests, history, request_count>>
consentVars == <<consents, time_now>>
queueVars == <<mission_queue, enqueue_count>>
svcVars == <<approvalVars, consentVars, queueVars, quotas, svc_call>>
\* The components outside the controller, the bus and the four services.
sandboxVars == <<runner, host>>
composerVars == <<nodes, composer>>
chatVars == <<workspace_file>>
toolVars == <<sandboxVars, composerVars, chatVars>>
extVars == <<allocations, arg, toolVars>>
\* Everything that is not state of the event bus.
notBus == <<tasks, ctlVars, drvVars, svcVars, extVars>>
\* Everything that is not state of the approval engine, the consent store,
\* the mission queue or the quota manager.
notSvc == <<tasks, ctlVars, drvVars, busVars, extVars>>
\* Everything that is not state of those components.
notExt == <<tasks, ctlVars, drvVars, busVars>>

\* ------------------------------------------------------------- task graph
TaskIds(ts) == 1..Len(ts)

\* TaskNode(...): status defaults to pending.
TaskNode(d) == [dependencies |-> d, status |-> "pending"]

\* The dependency entries a plan of n tasks may carry: <<task, dependency id>>,
\* the dependency id one of the plan or an id (n + 1) that names no task.
EdgePairs(n) == (1..n) \X (1..(n + 1))

\* The subsets of S with at most k elements.
RECURSIVE SubsetsUpTo(_, _)
SubsetsUpTo(S, k) ==
    IF k = 0 THEN {{}}
    ELSE LET prev == SubsetsUpTo(S, k - 1)
         IN  prev \cup {s \cup {x} : s \in prev, x \in S}

\* Every plan of n tasks, as add_task builds it (decomposition.py).
Plans(n) ==
    {[i \in 1..n |-> TaskNode({e[2] : e \in {p \in E : p[1] = i}})] :
        E \in SubsetsUpTo(EdgePairs(n), MaxEdges)}

\* DepsCompleted with the status test loosened to "not pending".
DepsCompleted_NotPending(ts, i) ==
    \A d \in ts[i].dependencies :
        d \in 1..Len(ts) => ts[d].status # "pending"

\* DepsCompleted without the `if dep_id in self._tasks` filter: a dependency
\* id that names no task is never satisfied.
DepsCompleted_Strict(ts, i) ==
    \A d \in ts[i].dependencies :
        d \in 1..Len(ts) /\ ts[d].status = "completed"

\* The dependency test of get_ready_tasks: dependencies that are in the
\* graph must be completed, the others are skipped by the `if dep_id in`.
DepsCompleted(ts, i) ==
    \A d \in ts[i].dependencies :
        d \in TaskIds(ts) => ts[d].status = "completed"

\* IsReady without the status filter of line 49.
IsReady_NoStatusCheck(ts, i) == DepsCompleted(ts, i)

\* The test get_ready_tasks applies to one task (lines 49-54).
IsReady(ts, i) == ts[i].status = "pending" /\ DepsCompleted(ts, i)

\* get_ready_tasks(): one pass over _tasks.values() in insertion order,
\* setting each selected task to ready as it goes.
RECURSIVE GetReadyFrom(_, _, _)
GetReadyFrom(ts, i, acc) ==
    IF i > Len(ts) THEN [tasks |-> ts, ready |-> acc]
    ELSE IF IsReady(ts, i)
         THEN GetReadyFrom([ts EXCEPT ![i].status = "ready"], i + 1, Append(acc, i))
         ELSE GetReadyFrom(ts, i + 1, acc)

\* get_ready_tasks that stops at the first ready task it finds.
get_ready_tasks_FirstOnly(ts) ==
    LET r == GetReadyFrom(ts, 1, <<>>).ready
    IN  IF r = <<>> THEN [tasks |-> ts, ready |-> <<>>]
        ELSE [tasks |-> [ts EXCEPT ![Head(r)].status = "ready"],
              ready |-> <<Head(r)>>]

get_ready_tasks(ts) == GetReadyFrom(ts, 1, <<>>)

mark_completed(ts, id) ==
    IF id \in TaskIds(ts) THEN [ts EXCEPT ![id].status = "completed"] ELSE ts

mark_failed(ts, id) ==
    IF id \in TaskIds(ts) THEN [ts EXCEPT ![id].status = "failed"] ELSE ts

\* is_complete that also counts a failed task as done.
is_complete_IgnoresFailed(ts) ==
    \A i \in TaskIds(ts) : ts[i].status \in {"completed", "skipped", "failed"}

is_complete(ts) ==
    \A i \in TaskIds(ts) : ts[i].status \in {"completed", "skipped"}

\* The ids already placed in `order` (the local set `completed`).
Placed(ord) == {ord[k] : k \in 1..Len(ord)}

\* get_execution_order(), lines 82-86: one pass of the for loop over
\* _tasks.values(); a task is appended when every id it lists is in
\* `completed`, which holds the ids appended so far.
RECURSIVE ForPassFrom(_, _, _)
ForPassFrom(ts, i, ord) ==
    IF i > Len(ts) THEN ord
    ELSE IF i \notin Placed(ord) /\ ts[i].dependencies \subseteq Placed(ord)
         THEN ForPassFrom(ts, i + 1, Append(ord, i))
         ELSE ForPassFrom(ts, i + 1, ord)

\* A for-pass that appends every task not yet placed, whatever it lists.
ForPass_IgnoresDeps(ts, ord) ==
    ord \o SelectSeq([i \in 1..Len(ts) |-> i], LAMBDA i : i \notin Placed(ord))

ForPass(ts, ord) == ForPassFrom(ts, 1, ord)

\* ------------------------------------------------------ mission controller
\* MissionState as the callers build it (run.py, server.py): status already
\* executing, total_steps the plan size, nothing completed, no error.
NewMission(n) ==
    [status |-> "executing", started_at |-> None, completed_at |-> None,
     total_steps |-> n, completed_steps |-> 0, error |-> "None"]

\* SQLiteStateStore.save_mission: the row written for a MissionState.
MissionRow(m) ==
    [status |-> m.status, started_at |-> m.started_at,
     completed_at |-> m.completed_at, total_steps |-> m.total_steps,
     completed_steps |-> m.completed_steps, error |-> m.error]

\* A steps row that was never written.
NoRow == [status |-> "absent", started_at |-> None, completed_at |-> None,
          error |-> "None"]

\* StepState(status=RUNNING) with started_at set, as execute_next_step builds it.
RunningStep(now) ==
    [status |-> "running", started_at |-> now, completed_at |-> None,
     error |-> "None"]

\* No StepState was built by the call.
NoStep == [status |-> "none", started_at |-> None, completed_at |-> None,
           error |-> "None"]

\* save_step that writes nothing.
save_step_Skipped(db, id, s) == db

\* SQLiteStateStore.save_step: INSERT OR REPLACE of the row of step id, with
\* the columns of the StepState the model keeps.
save_step(db, id, s) ==
    [db EXCEPT ![id] = [status |-> s.status, started_at |-> s.started_at,
                        completed_at |-> s.completed_at, error |-> s.error]]

\* create_event(type, payload): the fields of the payload the model keeps.
create_event(type, step_id, error) ==
    [type |-> type, step_id |-> step_id, error |-> error]

\* What a task-type handler (_execute_setup, _execute_development, ...) does
\* when called: return (True, text), return (False, text), or raise.
Errors == {"E1", "E2"}
HandlerOutcomes ==
    {[kind |-> "returns", success |-> TRUE, result |-> "done"],
     [kind |-> "returns", success |-> FALSE, result |-> "Code validation failed"]}
    \cup {[kind |-> "raises", success |-> FALSE, result |-> e] : e \in Errors}

\* No handler was called.
NoHandler == [kind |-> "none", success |-> FALSE, result |-> "None"]

\* _execute_task without the try/except: the handler's exception propagates.
execute_task_reraises(h) ==
    IF h.kind = "raises"
    THEN [raised |-> TRUE, success |-> FALSE, result |-> h.result]
    ELSE [raised |-> FALSE, success |-> h.success, result |-> h.result]

\* _execute_task: the try/except turns an exception into (False, str(e)).
execute_task(h) ==
    IF h.kind = "raises"
    THEN [raised |-> FALSE, success |-> FALSE, result |-> h.result]
    ELSE [raised |-> FALSE, success |-> h.success, result |-> h.result]

\* start(): sets executing unconditionally, stamps started_at, saves, publishes.
Start ==
    /\ clock < MaxCalls
    /\ Cardinality({k \in 1..Len(published) :
                       published[k].type = "MISSION_STARTED"}) < MaxStarts
    /\ clock' = clock + 1
    /\ mission' = [mission EXCEPT !.status = "executing", !.started_at = clock']
    /\ db_mission' = MissionRow(mission')
    /\ published' = Append(published, create_event("MISSION_STARTED", None, "None"))
    /\ call' = [op |-> "start", handler |-> NoHandler, step |-> NoStep]
    /\ ret' = [raised |-> FALSE, success |-> TRUE, step_id |-> None]
    /\ UNCHANGED <<tasks, db_steps, handler_runs, drvVars, busVars, svcVars, extVars>>

\* execute_next_step(), lines 82-93: no task is ready.
NoReadyTask(g) ==
    /\ g.ready = <<>>
    /\ tasks' = g.tasks
    /\ IF is_complete(g.tasks)
       THEN /\ mission' = [mission EXCEPT !.status = "completed",
                                          !.completed_at = clock']
            /\ db_mission' = MissionRow(mission')
            /\ published' = Append(published,
                                   create_event("MISSION_COMPLETED", None, "None"))
       ELSE UNCHANGED <<mission, db_mission, published>>
    /\ call' = [op |-> "execute_next_step", handler |-> NoHandler,
                step |-> NoStep]
    /\ ret' = [raised |-> FALSE, success |-> FALSE, step_id |-> None]
    /\ UNCHANGED <<db_steps, handler_runs>>

\* execute_next_step(), lines 95-144: the first ready task is run by handler
\* outcome h.
RunFirstReady(g, h) ==
    /\ g.ready # <<>>
    /\ LET id      == Head(g.ready)
           running == [g.tasks EXCEPT ![id].status = "running"]
           started == Append(published, create_event("STEP_STARTED", id, "None"))
           r       == execute_task(h)
           \* step_state as the call leaves it
           step    == IF r.raised THEN RunningStep(clock')
                      ELSE IF r.success
                      THEN [RunningStep(clock') EXCEPT !.status = "completed",
                                                       !.completed_at = clock']
                      ELSE [RunningStep(clock') EXCEPT !.status = "failed",
                                                       !.error = r.result]
       IN  /\ handler_runs' = [handler_runs EXCEPT ![id] = @ + 1]
           /\ call' = [op |-> "execute_next_step", handler |-> h, step |-> step]
           /\ db_steps' = save_step(db_steps, id, step)
           /\ IF r.raised
              THEN \* the exception leaves execute_next_step after line 114
                   /\ tasks' = running
                   /\ published' = started
                   /\ ret' = [raised |-> TRUE, success |-> FALSE, step_id |-> None]
                   /\ UNCHANGED <<mission, db_mission>>
              ELSE IF r.success
              THEN /\ tasks' = mark_completed(running, id)
                   /\ mission' = [mission EXCEPT !.completed_steps = @ + 1]
                   /\ db_mission' = MissionRow(mission')
                   /\ published' = Append(started,
                                          create_event("STEP_COMPLETED", id, "None"))
                   /\ ret' = [raised |-> FALSE, success |-> TRUE, step_id |-> id]
              ELSE /\ tasks' = mark_failed(running, id)
                   /\ mission' = [mission EXCEPT !.status = "failed",
                                                 !.error = r.result]
                   /\ db_mission' = MissionRow(mission')
                   /\ published' = Append(started,
                                          create_event("STEP_FAILED", id, r.result))
                   /\ ret' = [raised |-> FALSE, success |-> FALSE, step_id |-> id]

\* execute_next_step() with the task-type handler's behaviour drawn from H.
Step(H) ==
    /\ clock < MaxCalls
    /\ clock' = clock + 1
    /\ LET g == get_ready_tasks(tasks)
       IN  \/ NoReadyTask(g)
           \/ \E h \in H : RunFirstReady(g, h)
    /\ UNCHANGED <<drvVars, busVars, svcVars, extVars>>

ExecuteNextStep == Step(HandlerOutcomes)

\* --------------------------------------------------------- cancellation
\* The cancel transition of the mission lifecycle: status becomes cancelled
\* and, like every status transition, is persisted. Terminal states are left
\* alone.
Cancel ==
    /\ mission.status \notin {"completed", "failed", "cancelled"}
    /\ mission' = [mission EXCEPT !.status = "cancelled"]
    /\ db_mission' = MissionRow(mission')
    /\ call' = [op |-> "cancel", handler |-> NoHandler, step |-> NoStep]
    /\ ret' = [raised |-> FALSE, success |-> TRUE, step_id |-> None]
    /\ UNCHANGED <<tasks, db_steps, published, handler_runs, clock, drvVars,
                   busVars, svcVars, extVars>>

\* ------------------------------------------------------ risk and approval
\* RiskClassifier.classify, lines 69-87: the level for the list of matched
\* categories.
classify(categories) ==
    IF categories = {} THEN "low"
    ELSE IF categories \cap {"system", "code_execution"} # {} THEN "high"
    ELSE IF Cardinality(categories) > 2 THEN "medium"
    ELSE "low"

\* ApprovalEngine.request_approval, line 61: a request is auto-approved only
\* when auto-approval is on and the level is low; otherwise it is pending.
requires_approval(level, auto) ==
    ~(auto /\ level = "low")

\* The category sets the keyword scan (lines 63-67) finds in the operations
\* of the model: none, one harmless, one high-risk, three harmless.
OperationCategories ==
    {{}, {"filesystem"}, {"system"}, {"filesystem", "network", "data_access"}}

\* A handler outcome together with the categories of the dispatched task's
\* operation.
ClassifiedOutcomes ==
    {[kind |-> h.kind, success |-> h.success, result |-> h.result,
      categories |-> c] : h \in HandlerOutcomes, c \in OperationCategories}

\* execute_next_step() on tasks whose operations carry a risk classification.
ExecuteClassifiedStep == Step(ClassifiedOutcomes)

\* ------------------------------------------------------- task-type handlers
\* confidence values are kept in tenths: 0.6 is 6.
ConfidenceFloor == 6
\* max_retries as _execute_testing passes it.
RefactorRetries == 2

\* What one ChatEngine.handle_query call does: raise, or return a result
\* with a confidence (0.5 from its fallback, 0.7 and more from the model;
\* 0.6 is the boundary of refactor_on_error's test).
Confidences == {5, 6, 7}
QueryOutcomes ==
    {[raises |-> TRUE, confidence |-> 0]}
    \cup {[raises |-> FALSE, confidence |-> c] : c \in Confidences}

\* handle_query was not called.
NoQuery == [raises |-> FALSE, confidence |-> 0]

\* refactor_on_error that keeps asking while the confidence is low and
\* retries are left.
refactor_on_error_Loops(q1, q2, max_retries) ==
    IF q1.raises THEN [raised |-> TRUE, queries |-> 1]
    ELSE IF q1.confidence < ConfidenceFloor /\ max_retries > 0
         THEN IF q2.raises THEN [raised |-> TRUE, queries |-> 2]
              ELSE IF q2.confidence < ConfidenceFloor
                   THEN [raised |-> FALSE, queries |-> 1 + max_retries]
                   ELSE [raised |-> FALSE, queries |-> 2]
         ELSE [raised |-> FALSE, queries |-> 1]

\* RefactorEngine.refactor_on_error: one query, and one more when the first
\* confidence is below 0.6 and max_retries > 0. q1, q2 are what the first
\* and the second handle_query call do.
refactor_on_error(q1, q2, max_retries) ==
    IF q1.raises THEN [raised |-> TRUE, queries |-> 1]
    ELSE IF q1.confidence < ConfidenceFloor /\ max_retries > 0
         THEN [raised |-> q2.raises, queries |-> 2]
         ELSE [raised |-> FALSE, queries |-> 1]

\* The outcome record of a task-type handler, with what it consumed.
HandlerRun(type, inputs, success, result, test_runs, refactor_calls, queries) ==
    [kind |-> "returns", success |-> success, result |-> result,
     task_type |-> type, inputs |-> inputs, test_runs |-> test_runs,
     refactor_calls |-> refactor_calls, queries |-> queries]

\* _execute_testing: t1, t2 are what the first and the second run_tests()
\* call report ("pass": every result passed, "fail": some result failed);
\* the last line returns True whatever happened before.
execute_testing(in) ==
    IF in.t1 = "pass"
    THEN HandlerRun("testing", in, TRUE, "All tests passed", 1, 0, 0)
    ELSE LET rf == refactor_on_error(in.q1, in.q2, RefactorRetries)
         IN  IF rf.raised
             THEN HandlerRun("testing", in, TRUE, "Tests skipped", 1, 1, rf.queries)
             ELSE IF in.t2 = "pass"
             THEN HandlerRun("testing", in, TRUE, "Tests passed after auto-refactor",
                             2, 1, rf.queries)
             ELSE HandlerRun("testing", in, TRUE, "Tests skipped", 2, 1, rf.queries)

\* The inputs of a testing step: a call that is not reached reads nothing.
TestingInputs ==
    {[t1 |-> "pass", q1 |-> NoQuery, q2 |-> NoQuery, t2 |-> "none"]}
    \cup {[t1 |-> "fail", q1 |-> q1, q2 |-> q2, t2 |-> t2] :
             q1 \in QueryOutcomes, q2 \in QueryOutcomes, t2 \in {"pass", "fail"}}

TestingOutcomes == {execute_testing(in) : in \in TestingInputs}

\* _execute_development. gen is what generate_code does: "raises",
\* "placeholder" (text the placeholder test of line 202 matches), or model
\* code that is "valid" or "invalid" Python. polish is what polish_template
\* does with the template: "raises", "template" (returns it unchanged), or
\* model text that is "valid" or "invalid" Python. The templates themselves
\* compile. py_compile decides the result.
execute_development(in) ==
    LET fallback == in.gen \in {"raises", "placeholder"}
        code     == IF ~fallback THEN in.gen
                    ELSE IF in.polish \in {"raises", "template"} THEN "template"
                    ELSE in.polish
        compiles == code \in {"valid", "template"}
    IN  HandlerRun("development", in, compiles,
                   IF compiles THEN "Code generated" ELSE "Code validation failed",
                   0, 0, 0)

\* The inputs of a development step: polish_template is called only on the
\* fallback path.
DevelopmentInputs ==
    {[gen |-> g, polish |-> "none"] : g \in {"valid", "invalid"}}
    \cup {[gen |-> g, polish |-> p] :
             g \in {"raises", "placeholder"},
             p \in {"raises", "template", "valid", "invalid"}}

DevelopmentOutcomes == {execute_development(in) : in \in DevelopmentInputs}

\* execute_next_step() dispatching a testing task / a development task.
ExecuteTestingStep == Step(TestingOutcomes)

ExecuteDevelopmentStep == Step(DevelopmentOutcomes)

\* ------------------------------------------- callers of the task graph
\* A caller's loop over the graph alone: get_ready_tasks(), then
\* mark_completed / mark_failed on each task it returned, until it returns
\* nothing.
GetReadyTasks ==
    /\ gpc = "idle"
    /\ LET g == get_ready_tasks(tasks)
       IN  /\ tasks' = g.tasks
           /\ ready' = g.ready
           /\ gpc' = IF g.ready = <<>> THEN "done" ELSE "marking"
    /\ UNCHANGED <<order, ctlVars, busVars, svcVars, extVars>>

MarkCompleted ==
    /\ gpc = "marking"
    /\ tasks' = mark_completed(tasks, Head(ready))
    /\ ready' = Tail(ready)
    /\ gpc' = IF ready' = <<>> THEN "idle" ELSE "marking"
    /\ UNCHANGED <<order, ctlVars, busVars, svcVars, extVars>>

MarkFailed ==
    /\ gpc = "marking"
    /\ tasks' = mark_failed(tasks, Head(ready))
    /\ ready' = Tail(ready)
    /\ gpc' = IF ready' = <<>> THEN "idle" ELSE "marking"
    /\ UNCHANGED <<order, ctlVars, busVars, svcVars, extVars>>

\* get_execution_order(): order = [], then the while loop, one for-pass per
\* step. A pass that appends nothing leaves `order` and `completed` as they
\* were, so every later pass does the same: the loop never ends ("spinning").
CallExecutionOrder ==
    /\ gpc = "idle"
    /\ order' = <<>>
    /\ gpc' = "ordering"
    /\ UNCHANGED <<tasks, ready, ctlVars, busVars, svcVars, extVars>>

OrderPass ==
    /\ gpc = "ordering"
    /\ Len(order) < Len(tasks)
    /\ order' = ForPass(tasks, order)
    /\ gpc' = IF order' = order THEN "spinning" ELSE "ordering"
    /\ UNCHANGED <<tasks, ready, ctlVars, busVars, svcVars, extVars>>

OrderReturn ==
    /\ gpc = "ordering"
    /\ ~(Len(order) < Len(tasks))
    /\ gpc' = "returned"
    /\ UNCHANGED <<tasks, ready, order, ctlVars, busVars, svcVars, extVars>>

\* ---------------------------------------------------------------- event bus
\* The handler callables and the event types of an event bus run.
Handlers == {1, 2}
BusEventTypes == {"X", "Y"}

\* No event.
NoEvent == [id |-> None, type |-> "None"]

\* No event was delivered yet.
NoDelivery == [event |-> NoEvent, invoked |-> <<>>, raised |-> FALSE]

\* stop() was never called.
NoStop == [called |-> FALSE, pending |-> {}, restarted |-> FALSE]

\* The events that were published to the queue and that no worker took.
Queued == {event_queue[k].id : k \in 1..Len(event_queue)}

\* The number of subscriptions the bus holds.
SubCount == Len(wildcard_listeners) + Len(listeners["X"]) + Len(listeners["Y"])

\* list.remove(h): the list without its first occurrence of h.
remove(lst, h) ==
    LET k == CHOOSE k \in 1..Len(lst) :
                 lst[k] = h /\ \A j \in 1..(k - 1) : lst[j] # h
    IN  SubSeq(lst, 1, k - 1) \o SubSeq(lst, k + 1, Len(lst))

\* subscribe(event_type, handler): appended to the type's list.
Subscribe ==
    /\ SubCount < MaxSubs
    /\ \E t \in BusEventTypes, h \in Handlers :
          listeners' = [listeners EXCEPT ![t] = Append(@, h)]
    /\ UNCHANGED <<wildcard_listeners, event_queue, dead_letter_queue,
                   bus_running, event_count, delivery, worker_threads, joining,
                   stop_log, publish_log, notBus>>

\* subscribe_all(handler).
SubscribeAll ==
    /\ SubCount < MaxSubs
    /\ \E h \in Handlers : wildcard_listeners' = Append(wildcard_listeners, h)
    /\ UNCHANGED <<listeners, event_queue, dead_letter_queue, bus_running,
                   event_count, delivery, worker_threads, joining, stop_log,
                   publish_log, notBus>>

\* unsubscribe(event_type, handler): removes the handler's first entry in the
\* type's list, if it has one.
Unsubscribe ==
    /\ \E t \in BusEventTypes, h \in Handlers :
          /\ \E k \in 1..Len(listeners[t]) : listeners[t][k] = h
          /\ listeners' = [listeners EXCEPT ![t] = remove(@, h)]
    /\ UNCHANGED <<wildcard_listeners, event_queue, dead_letter_queue,
                   bus_running, event_count, delivery, worker_threads, joining,
                   stop_log, publish_log, notBus>>

\* start(): returns at once when _running is set; otherwise sets it and
\* starts a new worker thread, which becomes _worker_thread. The caller of
\* start() and stop() is one thread: no start() while a stop() is in join.
BusStart ==
    /\ ~joining
    /\ ~bus_running
    /\ Len(worker_threads) < MaxThreads
    /\ bus_running' = TRUE
    /\ worker_threads' = Append(worker_threads, [at |-> "top", event |-> NoEvent])
    /\ stop_log' = [stop_log EXCEPT !.restarted = stop_log.called,
                                    !.pending = @ \cap Queued]
    /\ UNCHANGED <<listeners, wildcard_listeners, event_queue, dead_letter_queue,
                   event_count, delivery, joining, publish_log, notBus>>

\* stop(), lines 109-111: clears _running, then joins _worker_thread if
\* there is one.
BusStop ==
    /\ ~joining
    /\ bus_running' = FALSE
    /\ joining' = (worker_threads # <<>>)
    /\ stop_log' = [called |-> TRUE, pending |-> Queued, restarted |-> FALSE]
    /\ UNCHANGED <<listeners, wildcard_listeners, event_queue, dead_letter_queue,
                   event_count, delivery, worker_threads, publish_log, notBus>>

\* join(timeout=5.0) returns: the thread has ended, or the timeout passed
\* while the thread was inside a handler (a thread at the loop test or in
\* get(timeout=0.1) ends well within the 5 seconds).
BusStopReturn ==
    /\ joining
    /\ worker_threads[Len(worker_threads)].at \in {"exited", "processing"}
    /\ joining' = FALSE
    /\ UNCHANGED <<listeners, wildcard_listeners, event_queue, dead_letter_queue,
                   bus_running, event_count, delivery, worker_threads, stop_log,
                   publish_log, notBus>>

\* No publish call was noted.
NoPublish == [id |-> None, handlers |-> {}]

\* The handlers subscribed to an event's type, and to all types, when
\* publish is called with it (kept as history only: publish reads neither).
handlers_at_publish(e) ==
    LET hs == listeners[e.type] \o wildcard_listeners
    IN  [id |-> e.id, handlers |-> {hs[k] : k \in 1..Len(hs)}]

\* publish(event): the event is put on the queue and nothing else happens.
\* At most n events are handed to the bus.
PublishUpTo(n) ==
    /\ event_count < n
    /\ event_count' = event_count + 1
    /\ \E t \in BusEventTypes :
          event_queue' = Append(event_queue, [id |-> event_count', type |-> t])
    /\ UNCHANGED <<listeners, wildcard_listeners, dead_letter_queue, bus_running,
                   delivery, worker_threads, joining, stop_log, publish_log, notBus>>

Publish == PublishUpTo(MaxEvents)

\* publish(event), with the handlers subscribed at the time of the call
\* noted in the history.
PublishLogged ==
    /\ event_count < MaxEvents
    /\ event_count' = event_count + 1
    /\ \E t \in BusEventTypes :
          LET e == [id |-> event_count', type |-> t]
          IN  /\ event_queue' = Append(event_queue, e)
              /\ publish_log' = handlers_at_publish(e)
    /\ UNCHANGED <<listeners, wildcard_listeners, dead_letter_queue, bus_running,
                   delivery, worker_threads, joining, stop_log, notBus>>

PublishQueued == PublishUpTo(MaxQueued)

\* The handler list _process_event_sync / _process_event builds for an
\* event, with the wildcard handlers first.
handlers_for_WildcardFirst(e) == wildcard_listeners \o listeners[e.type]

\* A handler list fixed when the event was published.
handlers_for_AtPublish(e) ==
    IF e.id = publish_log.id
    THEN SelectSeq(<<1, 2>>, LAMBDA h : h \in publish_log.handlers)
    ELSE listeners[e.type] \o wildcard_listeners

\* The handler list _process_event_sync / _process_event builds for an
\* event: the type's handlers, then the wildcard handlers.
handlers_for(e) == listeners[e.type] \o wildcard_listeners

\* The for loop of _process_event_sync / _process_event from position k on:
\* each handler is called inside its own try; one that raises appends the
\* event to the dead-letter list and the loop goes on. b[k] is what the k-th
\* handler called does ("ok" or "raises").
RECURSIVE DeliverFrom(_, _, _, _, _)
DeliverFrom(e, hs, b, k, acc) ==
    IF k > Len(hs) THEN acc
    ELSE DeliverFrom(e, hs, b, k + 1,
            [invoked |-> Append(acc.invoked, [handler |-> hs[k], outcome |-> b[k]]),
             dead    |-> IF b[k] = "raises" THEN Append(acc.dead, e) ELSE acc.dead,
             raised  |-> FALSE])

\* A delivery whose try encloses the whole loop: the first handler that
\* raises ends it.
process_event_StopsAtRaise(e, hs, b) ==
    LET raisers == {k \in 1..Len(hs) : b[k] = "raises"}
        last    == IF raisers = {} THEN Len(hs)
                   ELSE CHOOSE k \in raisers : \A j \in raisers : k <= j
    IN  DeliverFrom(e, SubSeq(hs, 1, last), b, 1,
                    [invoked |-> <<>>, dead |-> <<>>, raised |-> FALSE])

\* _process_event_sync(event) / _process_event(event) on handler list hs.
process_event(e, hs, b) ==
    DeliverFrom(e, hs, b, 1, [invoked |-> <<>>, dead |-> <<>>, raised |-> FALSE])

\* What the handlers of a list may do when called.
Behaviours(hs) == [1..Len(hs) -> {"ok", "raises"}]

\* _process_event_sync / _process_event on event e: the handler list is
\* built from the listeners as they are now, and each handler is called.
Deliver(e) ==
    LET hs == handlers_for(e)
    IN  \E b \in Behaviours(hs) :
           LET d == process_event(e, hs, b)
           IN  /\ dead_letter_queue' = dead_letter_queue \o d.dead
               /\ delivery' = [event |-> e, invoked |-> d.invoked,
                               raised |-> d.raised]

\* _worker, line 115: the loop test. The thread ends when _running is clear.
WorkerTest ==
    /\ \E w \in 1..Len(worker_threads) :
          /\ worker_threads[w].at = "top"
          /\ worker_threads' =
                 [worker_threads EXCEPT ![w].at =
                      IF bus_running THEN "getting" ELSE "exited"]
    /\ UNCHANGED <<listeners, wildcard_listeners, event_queue, dead_letter_queue,
                   bus_running, event_count, delivery, joining, stop_log,
                   publish_log, notBus>>

\* _worker, line 117: get(timeout=0.1) returns the oldest event.
WorkerGet ==
    /\ event_queue # <<>>
    /\ \E w \in 1..Len(worker_threads) :
          /\ worker_threads[w].at = "getting"
          /\ worker_threads' =
                 [worker_threads EXCEPT ![w] =
                      [at |-> "processing", event |-> Head(event_queue)]]
    /\ event_queue' = Tail(event_queue)
    /\ UNCHANGED <<listeners, wildcard_listeners, dead_letter_queue, bus_running,
                   event_count, delivery, joining, stop_log, publish_log, notBus>>

\* _worker, lines 119-120: get timed out on an empty queue; back to the test.
WorkerEmpty ==
    /\ event_queue = <<>>
    /\ \E w \in 1..Len(worker_threads) :
          /\ worker_threads[w].at = "getting"
          /\ worker_threads' = [worker_threads EXCEPT ![w].at = "top"]
    /\ UNCHANGED <<listeners, wildcard_listeners, event_queue, dead_letter_queue,
                   bus_running, event_count, delivery, joining, stop_log,
                   publish_log, notBus>>

\* _worker, line 118: _process_event_sync on the event taken; back to the
\* test.
WorkerProcess ==
    /\ \E w \in 1..Len(worker_threads) :
          /\ worker_threads[w].at = "processing"
          /\ Deliver(worker_threads[w].event)
          /\ worker_threads' =
                 [worker_threads EXCEPT ![w] = [at |-> "top", event |-> NoEvent]]
    /\ UNCHANGED <<listeners, wildcard_listeners, event_queue, bus_running,
                   event_count, joining, stop_log, publish_log, notBus>>

\* publish_async(event): _process_event runs in the caller.
PublishAsync ==
    /\ event_count < MaxEvents
    /\ event_count' = event_count + 1
    /\ \E t \in BusEventTypes : Deliver([id |-> event_count', type |-> t])
    /\ UNCHANGED <<listeners, wildcard_listeners, event_queue, bus_running,
                   worker_threads, joining, stop_log, publish_log, notBus>>

\* ---------------------------------------------------------- approval engine
RiskLevels == {"low", "high"}
\* The resolved_by and reason arguments of approve / deny: the defaults
\* ("user", None) and given ones.
Resolutions == {<<"user", "None">>, <<"admin", "checked">>}
RequestIds == 1..MaxRequests

\* An ApprovalRequest: the fields the engine reads or writes.
Request(id, level, status, by, reason) ==
    [request_id |-> id, risk_level |-> level, status |-> status,
     resolved_by |-> by, reason |-> reason]

\* None where a request is expected.
NoRequest == Request(None, "None", "None", "None", "None")

\* No service was called yet.
NoCall == [op |-> "none"]

\* A test of line 61 that leaves the risk level out.
auto_approves_AnyRisk(auto, level) == auto

\* request_approval, line 61: the request is approved at once.
auto_approves(auto, level) == auto /\ level = "low"

\* request_approval(operation, description, risk_level, context): a new
\* request under a fresh id, auto-approved into the history or held pending.
RequestApproval ==
    /\ request_count < MaxRequests
    /\ request_count' = request_count + 1
    /\ \E level \in RiskLevels :
          IF auto_approves(auto_approve_low_risk, level)
          THEN LET r == Request(request_count', level, "auto_approved", "None",
                                "Auto-approved low-risk operation")
               IN  /\ history' = Append(history, r)
                   /\ pending_requests' = pending_requests
                   /\ svc_call' = [op |-> "request_approval", request |-> r]
          ELSE LET r == Request(request_count', level, "pending", "None", "None")
               IN  /\ pending_requests' = pending_requests \cup {r}
                   /\ history' = history
                   /\ svc_call' = [op |-> "request_approval", request |-> r]
    /\ UNCHANGED <<auto_approve_low_risk, consentVars, queueVars, quotas, notSvc>>

\* A pop that empties the dict.
pop_Clears(pending, id) == {}

\* A pop that leaves the request in the dict.
pop_Keeps(pending, id) == pending

\* _pending_requests.pop(request_id, None): the dict without the id.
pop(pending, id) == {r \in pending : r.request_id # id}

\* approve / deny, lines 78-85 and 94-101: the pending request is popped,
\* marked, appended to the history and returned; None for an id that is not
\* pending.
Resolve(op, status, id, by, reason) ==
    LET found == {r \in pending_requests : r.request_id = id}
    IN  /\ IF found = {}
           THEN /\ history' = history
                /\ svc_call' = [op |-> op, request_id |-> id, resolved_by |-> by,
                                reason |-> reason, request |-> NoRequest]
           ELSE LET r == CHOOSE r \in found : TRUE
                    resolved == [r EXCEPT !.status = status, !.resolved_by = by,
                                          !.reason = reason]
                IN  /\ history' = Append(history, resolved)
                    /\ svc_call' = [op |-> op, request_id |-> id,
                                    resolved_by |-> by, reason |-> reason,
                                    request |-> resolved]
        /\ pending_requests' = pop(pending_requests, id)
        /\ UNCHANGED <<auto_approve_low_risk, request_count, consentVars,
                       queueVars, quotas, notSvc>>

\* approve(request_id, resolved_by, reason).
Approve ==
    \E id \in RequestIds, res \in Resolutions :
        Resolve("approve", "approved", id, res[1], res[2])

\* deny(request_id, resolved_by, reason).
Deny ==
    \E id \in RequestIds, res \in Resolutions :
        Resolve("deny", "denied", id, res[1], res[2])

\* The history entries of a request id.
entries(hist, id) == {k \in 1..Len(hist) : hist[k].request_id = id}

\* An is_approved for which any resolution counts.
is_approved_AnyResolved(hist, id) == entries(hist, id) # {}

\* is_approved(request_id): the status of the first history entry with the
\* id is approved or auto_approved; False when there is none.
is_approved(hist, id) ==
    IF entries(hist, id) = {} THEN FALSE
    ELSE LET k == CHOOSE k \in entries(hist, id) :
                      \A j \in entries(hist, id) : k <= j
         IN  hist[k].status \in {"approved", "auto_approved"}

IsApproved ==
    /\ \E id \in RequestIds :
          svc_call' = [op |-> "is_approved", request_id |-> id,
                       approved |-> is_approved(history, id)]
    /\ UNCHANGED <<approvalVars, consentVars, queueVars, quotas, notSvc>>

\* ------------------------------------------------------------- consent store
ConsentIds == {"c1", "c2"}
OperationTypes == {"read", "write"}
Scopes == {"*", "docs"}
\* The times datetime.now() returns, and the expires_at values of a grant
\* (None: no expiry).
Times == 1..MaxTime
Expiries == {None} \cup Times

\* A ConsentRecord.
Consent(id, type, scope, granted, granted_at, expires_at) ==
    [consent_id |-> id, operation_type |-> type, scope |-> scope,
     granted |-> granted, granted_at |-> granted_at, expires_at |-> expires_at]

\* The consent files _load may find: none, or one with a record that is not
\* granted.
LoadedConsents == {{}, {Consent("c1", "read", "*", FALSE, 1, None)}}

\* An expiry test that counts a record expiring now as expired.
expired_AtNow(record, t) == record.expires_at # None /\ record.expires_at <= t

\* check, lines 89-92: the record has an expiry and it is earlier than now.
expired(record, t) == record.expires_at # None /\ record.expires_at < t

\* check(operation_type, scope), lines 80-95: the loop skips a record of
\* another type, of another scope that is not "*", not granted, or expired,
\* and returns True at the first record left.
check(cs, type, scope, t) ==
    \E r \in cs :
        /\ ~(r.operation_type # type)
        /\ ~(r.scope # scope /\ r.scope # "*")
        /\ ~(~r.granted)
        /\ ~expired(r, t)

\* grant(consent_id, operation_type, scope, expires_at, conditions): the
\* record replaces the one stored under the id, if any.
Grant ==
    /\ \E id \in ConsentIds, type \in OperationTypes, scope \in Scopes,
          exp \in Expiries :
          /\ consents' = {r \in consents : r.consent_id # id}
                            \cup {Consent(id, type, scope, TRUE, time_now, exp)}
          /\ svc_call' = [op |-> "grant", consent_id |-> id]
    /\ UNCHANGED <<time_now, approvalVars, queueVars, quotas, notSvc>>

\* revoke(consent_id): deletes the record; True if there was one.
Revoke ==
    /\ \E id \in ConsentIds :
          /\ consents' = {r \in consents : r.consent_id # id}
          /\ svc_call' = [op |-> "revoke", consent_id |-> id,
                          revoked |-> (\E r \in consents : r.consent_id = id)]
    /\ UNCHANGED <<time_now, approvalVars, queueVars, quotas, notSvc>>

\* check(operation_type, scope).
Check ==
    /\ \E type \in OperationTypes, scope \in Scopes :
          svc_call' = [op |-> "check", operation_type |-> type, scope |-> scope,
                       valid |-> check(consents, type, scope, time_now)]
    /\ UNCHANGED <<consentVars, approvalVars, queueVars, quotas, notSvc>>

\* list_consents().
ListConsents ==
    /\ svc_call' = [op |-> "list_consents", listed |-> consents]
    /\ UNCHANGED <<consentVars, approvalVars, queueVars, quotas, notSvc>>

\* Time passes.
Tick ==
    /\ time_now < MaxTime
    /\ time_now' = time_now + 1
    /\ UNCHANGED <<consents, svc_call, approvalVars, queueVars, quotas, notSvc>>

\* ------------------------------------------------------------- mission queue
Priorities == 0..MaxPriority

\* An insertion that puts the pair before the pairs of its own priority.
InsertByPriority_BeforeEqual(q, x) ==
    LET n == Cardinality({k \in 1..Len(q) : q[k][1] > x[1]})
    IN  SubSeq(q, 1, n) \o <<x>> \o SubSeq(q, n + 1, Len(q))

\* One step of the stable sort by -priority: into a list already in order,
\* the pair goes after every pair whose priority is not lower.
InsertByPriority(q, x) ==
    LET n == Cardinality({k \in 1..Len(q) : q[k][1] >= x[1]})
    IN  SubSeq(q, 1, n) \o <<x>> \o SubSeq(q, n + 1, Len(q))

\* sorted(queue, key=lambda x: -x[0]): a stable sort, highest priority first.
RECURSIVE sorted_by_priority(_)
sorted_by_priority(q) ==
    IF q = <<>> THEN <<>>
    ELSE InsertByPriority(sorted_by_priority(SubSeq(q, 1, Len(q) - 1)), q[Len(q)])

\* enqueue(mission_id, priority): append, then sort the whole queue.
Enqueue ==
    /\ enqueue_count < MaxEnqueues
    /\ enqueue_count' = enqueue_count + 1
    /\ \E priority \in Priorities :
          /\ mission_queue' =
                 sorted_by_priority(Append(mission_queue, <<priority, enqueue_count'>>))
          /\ svc_call' = [op |-> "enqueue", mission_id |-> enqueue_count',
                          priority |-> priority]
    /\ UNCHANGED <<approvalVars, consentVars, quotas, notSvc>>

\* dequeue(): the id of the first pair, which is removed; None when empty.
Dequeue ==
    /\ IF mission_queue # <<>>
       THEN /\ svc_call' = [op |-> "dequeue", mission_id |-> Head(mission_queue)[2]]
            /\ mission_queue' = Tail(mission_queue)
       ELSE /\ svc_call' = [op |-> "dequeue", mission_id |-> None]
            /\ mission_queue' = mission_queue
    /\ UNCHANGED <<enqueue_count, approvalVars, consentVars, quotas, notSvc>>

\* is_empty().
IsEmpty ==
    /\ svc_call' = [op |-> "is_empty", empty |-> (Len(mission_queue) = 0)]
    /\ UNCHANGED <<queueVars, approvalVars, consentVars, quotas, notSvc>>

\* ------------------------------------------------------------- quota manager
ResourceTypes == {"cpu", "tokens"}
Limits == 0..MaxLimit
Amounts == 1..(MaxLimit + 1)

\* A resource type set_quota was not called for.
NoQuota == [configured |-> FALSE, limit |-> 0, used |-> 0]

\* A check that needs room to spare.
check_quota_Strict(qs, type, amount) ==
    IF ~qs[type].configured THEN TRUE
    ELSE qs[type].used + amount < qs[type].limit

\* check_quota(resource_type, amount): True for a type without a quota,
\* otherwise used + amount <= limit.
check_quota(qs, type, amount) ==
    IF ~qs[type].configured THEN TRUE
    ELSE qs[type].used + amount <= qs[type].limit

\* set_quota(resource_type, limit): the type's entry is replaced.
SetQuota ==
    /\ \E type \in ResourceTypes, limit \in Limits :
          /\ quotas' = [quotas EXCEPT
                           ![type] = [configured |-> TRUE, limit |-> limit, used |-> 0]]
          /\ svc_call' = [op |-> "set_quota", resource_type |-> type, limit |-> limit]
    /\ UNCHANGED <<approvalVars, consentVars, queueVars, notSvc>>

\* check_quota(resource_type, amount).
CheckQuota ==
    /\ \E type \in ResourceTypes, amount \in Amounts :
          svc_call' = [op |-> "check_quota", resource_type |-> type,
                       amount |-> amount,
                       allowed |-> check_quota(quotas, type, amount)]
    /\ UNCHANGED <<quotas, approvalVars, consentVars, queueVars, notSvc>>

\* ----------------------------------------------------------- risk classifier
\* CATEGORY_KEYWORDS, in the order of the dict.
CategoryOrder ==
    <<"filesystem", "network", "system", "code_execution", "data_access">>
CATEGORY_KEYWORDS ==
    [filesystem     |-> {"file", "write", "read", "delete", "remove", "mkdir",
                         "rmdir", "path", "directory"},
     network        |-> {"http", "https", "socket", "request", "url", "download",
                         "upload", "api", "fetch"},
     system         |-> {"subprocess", "os.", "sys.", "shell", "command",
                         "execute", "run", "process"},
     code_execution |-> {"eval", "exec", "compile", "import", "__"},
     data_access    |-> {"database", "sql", "query", "select", "insert",
                         "password", "credential", "secret", "key"}]

\* The words of the operation texts, as written.
Words == {"File", "path", "UPLOAD", "Select", "Shell", "EVAL", "Execute", "hello"}

\* A lower() that leaves the text as written.
lower_AsWritten(word) == word

\* str.lower() on a word.
lower(word) ==
    CASE word = "File"    -> "file"
      [] word = "UPLOAD"  -> "upload"
      [] word = "Select"  -> "select"
      [] word = "Shell"   -> "shell"
      [] word = "EVAL"    -> "eval"
      [] word = "Execute" -> "execute"
      [] OTHER            -> word

\* `keyword in text` for a text of one word: the keyword is a substring.
is_substring(keyword, word) ==
    \/ keyword = word
    \/ keyword = "exec" /\ word = "execute"

\* The operation texts: up to MaxWords words.
Operations == UNION {[1..n -> Words] : n \in 0..MaxWords}

\* classify, lines 63-67: a category is appended, once, when one of its
\* keywords is in the lowered operation text.
RECURSIVE keyword_scan(_, _)
keyword_scan(operation, k) ==
    IF k > Len(CategoryOrder) THEN <<>>
    ELSE LET category == CategoryOrder[k]
             found == \E keyword \in CATEGORY_KEYWORDS[category] :
                         \E w \in 1..Len(operation) :
                            is_substring(keyword, lower(operation[w]))
         IN  (IF found THEN <<category>> ELSE <<>>)
                \o keyword_scan(operation, k + 1)

\* classify(operation): the Classification returned (level and categories).
classification(operation) ==
    LET categories == keyword_scan(operation, 1)
    IN  [level |-> classify({categories[k] : k \in 1..Len(categories)}),
         categories |-> categories]

\* A call of RiskClassifier.classify on the operation text.
Classify ==
    /\ svc_call' = [op |-> "classify", level |-> classification(arg).level,
                    categories |-> classification(arg).categories]
    /\ UNCHANGED <<approvalVars, consentVars, queueVars, quotas, extVars, notExt>>

\* --------------------------------------------------------------- risk scorer
\* Scores are kept in hundredths: 0.4 is 40.
CRITICAL_PATTERNS ==
    {"rm -rf", "format", "del /", "deltree", "__import__", "importlib", "ctypes",
     "sys.exit", "os._exit"}
HIGH_RISK_PATTERNS ==
    {"subprocess", "os.system", "eval", "exec", "open(", "write(", "remove",
     "rmdir", "unlink", "shutil", "pathlib", "socket", "requests", "urllib",
     "http", "ftp", "ssh"}

\* The fragments a code sample is made of: patterns as written in code, in
\* either case, and text without a pattern.
Fragments == {"rm -rf", "CTYPES", "eval", "shutil", "socket", "s", "x = 1"}

\* str.lower() on a fragment.
lower_fragment(f) == IF f = "CTYPES" THEN "ctypes" ELSE f

\* `pattern in code_lower`: the pattern is a substring of the lowered code.
\* It lies in one fragment or across two: "s" before "shutil" reads "ssh".
pattern_in(pattern, code) ==
    \/ \E k \in 1..Len(code) : lower_fragment(code[k]) = pattern
    \/ /\ pattern = "ssh"
       /\ \E k \in 1..(Len(code) - 1) : code[k] = "s" /\ code[k + 1] = "shutil"

\* A clamp that wraps around instead.
clamp_Wraps(score) == score % 100

\* min(score, 1.0).
clamp(score) == IF score < 100 THEN score ELSE 100

\* assess(code, context): 0.4 per critical pattern present, 0.15 per
\* high-risk pattern present, 0.2 and 0.1 for the network and filesystem
\* capabilities, clamped; the level and requires_approval by thresholds.
assess(code, capabilities) ==
    LET raw == 40 * Cardinality({q \in CRITICAL_PATTERNS : pattern_in(q, code)})
               + 15 * Cardinality({q \in HIGH_RISK_PATTERNS : pattern_in(q, code)})
               + (IF "network" \in capabilities THEN 20 ELSE 0)
               + (IF "filesystem" \in capabilities THEN 10 ELSE 0)
        score == clamp(raw)
    IN  [op |-> "assess",
         score |-> score,
         level |-> IF score >= 80 THEN "critical"
                   ELSE IF score >= 60 THEN "high"
                   ELSE IF score >= 30 THEN "medium" ELSE "low",
         requires_approval |-> score >= 60]

\* The code samples and contexts of an assess call.
CodeSamples == UNION {[1..n -> Fragments] : n \in 0..(MaxFragments - 1)}
Capabilities == SUBSET {"network", "filesystem"}

\* assess on the code sample at hand.
Assess ==
    /\ svc_call' = assess(arg.code, arg.capabilities)
    /\ UNCHANGED <<approvalVars, consentVars, queueVars, quotas, extVars, notExt>>

\* A fragment is appended to the code sample, which is assessed again in
\* the same context.
AppendAndAssess ==
    /\ svc_call.op = "assess"
    /\ Len(arg.code) < MaxFragments
    /\ \E f \in Fragments :
          /\ arg' = [arg EXCEPT !.code = Append(@, f)]
          /\ svc_call' = assess(arg'.code, arg.capabilities)
    /\ UNCHANGED <<approvalVars, consentVars, queueVars, quotas, allocations,
                   toolVars, notExt>>

\* ------------------------------------------------------------------ denylist
DANGEROUS_MODULES ==
    {"os", "subprocess", "shutil", "sys", "ctypes", "socket", "pickle", "marshal"}
\* DANGEROUS_PATTERNS, in list order.
DANGEROUS_PATTERNS ==
    <<"rm\\s+-rf", "del\\s+/[fs]", "format\\s+[a-z]:", "__import__\\s*\\(",
      "exec\\s*\\(", "eval\\s*\\(", "compile\\s*\\(", "globals\\s*\\(",
      "locals\\s*\\(", "getattr\\s*\\(\\s*__builtins__">>

\* The pieces a checked code text is made of: calls on modules and
\* arguments.
CodePieces ==
    {"os.system(", "subprocess.run(", "json.dumps(", "'rm -rf /'", "'RM  -RF /'",
     "eval (", "evaluate", "'ls'"}

\* pattern.search(piece) with re.IGNORECASE.
regex_search(pattern, piece) ==
    \/ pattern = "rm\\s+-rf" /\ piece \in {"'rm -rf /'", "'RM  -RF /'"}
    \/ pattern = "eval\\s*\\(" /\ piece = "eval ("

\* The code texts: sets of pieces (their order does not change a search).
CodeTexts == SUBSET CodePieces

\* check_code, lines 49-53: one violation per denied pattern found, in the
\* order of the pattern list.
RECURSIVE violations_from(_, _)
violations_from(code, k) ==
    IF k > Len(DANGEROUS_PATTERNS) THEN <<>>
    ELSE (IF \E piece \in code : regex_search(DANGEROUS_PATTERNS[k], piece)
          THEN <<[kind |-> "Denied pattern", text |-> DANGEROUS_PATTERNS[k]]>>
          ELSE <<>>) \o violations_from(code, k + 1)

\* check_code(code).
CheckCode ==
    /\ svc_call' = [op |-> "check_code",
                    passed |-> (Len(violations_from(arg, 1)) = 0),
                    violations |-> violations_from(arg, 1)]
    /\ UNCHANGED <<approvalVars, consentVars, queueVars, quotas, extVars, notExt>>

\* -------------------------------------------------------- resource allocator
\* The resource ids allocate is called with: the ids of two missions.
ResourceIds == {1, 2}

\* allocate(resource_id, resources): records the allocation, returns True.
Allocate ==
    /\ \E id \in ResourceIds :
          /\ allocations' = allocations \cup {id}
          /\ svc_call' = [op |-> "allocate", resource_id |-> id, allocated |-> TRUE]
    /\ UNCHANGED <<approvalVars, consentVars, queueVars, quotas, arg, toolVars,
                   notExt>>

\* deallocate(resource_id): drops the allocation if there is one.
Deallocate ==
    /\ \E id \in ResourceIds :
          /\ allocations' = allocations \ {id}
          /\ svc_call' = [op |-> "deallocate", resource_id |-> id]
    /\ UNCHANGED <<approvalVars, consentVars, queueVars, quotas, arg, toolVars,
                   notExt>>

\* ------------------------------------------------------------ sandbox runners
\* NativeRunner, DockerRunner and WSLRunner (sandbox/runners).
RunnerKinds == {"native", "docker", "wsl"}

\* No runner has been built.
NoRunner == [kind |-> "none", available |-> "unknown"]

\* __init__: _docker_available / _wsl_available start as None (unknown); the
\* native runner has no such field.
NewRunner(k) == [kind |-> k, available |-> "unknown"]

\* The machine as the runner's subprocess calls find it: binary says whether
\* the engine's executable (docker, wsl) is found on the PATH, engine whether
\* the engine answers its probe with return code 0 within the probe's
\* timeout, windows whether platform.system() is "Windows".
Hosts == [binary : BOOLEAN, engine : BOOLEAN, windows : BOOLEAN]

\* The commands execute is called with, by what running them does: whether
\* the command's own executable is found, whether it ends within the
\* timeout, and the exit code it ends with.
Commands == [found : BOOLEAN, in_time : BOOLEAN, code : {0, 1}]

\* The probe of is_available: the WSL runner answers False off Windows
\* without running anything; FileNotFoundError and TimeoutExpired of the
\* probe are caught and mean False; otherwise returncode == 0.
probe(k, h) ==
    IF k = "wsl" /\ ~h.windows THEN FALSE
    ELSE IF ~h.binary THEN FALSE
    ELSE h.engine

\* is_available(): the cached answer when there is one, else the probe's,
\* which is cached.
is_available(r, h) ==
    IF r.available # "unknown" THEN r.available = "yes" ELSE probe(r.kind, h)

\* The runner after is_available().
cached(r, h) ==
    [r EXCEPT !.available = IF is_available(r, h) THEN "yes" ELSE "no"]

\* A result object returned by execute, and an exception leaving it.
Returned(k, code, err) ==
    [op |-> "execute", kind |-> k, raised |-> FALSE, exit_code |-> code,
     stderr |-> err]
Raised(k, exc) ==
    [op |-> "execute", kind |-> k, raised |-> TRUE, exit_code |-> 0,
     stderr |-> exc]

\* The stderr a command that ran to its end leaves: nothing when it
\* succeeded, its message otherwise.
stderr_of(code) == IF code = 0 THEN "" ELSE "error"

\* NativeRunner.execute: subprocess.run of the command itself;
\* TimeoutExpired and FileNotFoundError are caught and returned as -1.
native_execute(c) ==
    IF ~c.found THEN Returned("native", -1, "Command not found")
    ELSE IF ~c.in_time THEN Returned("native", -1, "Execution timed out")
    ELSE Returned("native", c.code, stderr_of(c.code))

\* DockerRunner.execute / WSLRunner.execute: -1 when is_available() is
\* False; else subprocess.run of the engine's executable with the command
\* handed to a shell inside, where only TimeoutExpired is caught: the
\* FileNotFoundError of an executable that is no longer found leaves
\* execute. An engine that no longer answers ends the engine's executable
\* with its own error code (125) and message, a command the inner shell
\* does not find ends it with the shell's (127).
engine_execute(r, h, c) ==
    IF ~is_available(r, h)
    THEN Returned(r.kind, -1, "engine is not available")
    ELSE IF ~h.binary THEN Raised(r.kind, "FileNotFoundError")
    ELSE IF ~c.in_time THEN Returned(r.kind, -1, "Execution timed out")
    ELSE IF ~h.engine THEN Returned(r.kind, 125, "engine error")
    ELSE IF ~c.found THEN Returned(r.kind, 127, "not found")
    ELSE Returned(r.kind, c.code, stderr_of(c.code))

\* runner.execute(command).
Execute ==
    /\ runner.kind \in RunnerKinds
    /\ \E c \in Commands :
          IF runner.kind = "native"
          THEN /\ svc_call' = native_execute(c)
               /\ runner' = runner
          ELSE /\ svc_call' = engine_execute(runner, host, c)
               /\ runner' = cached(runner, host)
    /\ UNCHANGED <<approvalVars, consentVars, queueVars, quotas, allocations,
                   arg, host, composerVars, chatVars, notExt>>

\* runner.is_available() of the Docker or the WSL runner.
IsAvailable ==
    /\ runner.kind \in {"docker", "wsl"}
    /\ svc_call' = [op |-> "is_available", kind |-> runner.kind,
                    answer |-> is_available(runner, host)]
    /\ runner' = cached(runner, host)
    /\ UNCHANGED <<approvalVars, consentVars, queueVars, quotas, allocations,
                   arg, host, composerVars, chatVars, notExt>>

\* Between two calls the machine changes: the engine is stopped or started,
\* its executable leaves or enters the PATH. The platform stays.
HostChange ==
    /\ runner.kind \in RunnerKinds
    /\ \E h \in Hosts :
          /\ h.windows = host.windows
          /\ h # host
          /\ host' = h
    /\ UNCHANGED <<svcVars, allocations, arg, runner, composerVars, chatVars,
                   notExt>>

\* ----------------------------------------------------------- composer engine
\* ComposerEngine (cognition/composer/composer_engine.py).

\* The paths a plan step lists in "files", and str(workspace_dir / path):
\* joining a relative path puts it under the workspace, joining an absolute
\* path gives that path.
ListedFiles == {"a.py"}
full_path(f) == IF f = "a.py" THEN "/ws/a.py" ELSE f

\* ComposerNode(node_id, task, dependencies, files_created): status pending.
ComposerNode(d, f) == [status |-> "pending", dependencies |-> d, files_created |-> f]

\* The dependency lists a step may carry in a plan of n steps: none, one id
\* (of a step, of the step itself, or n + 1, which names no step), or every
\* step of the plan.
NodeDependencies(n) == {{}} \cup {{d} : d \in 1..(n + 1)} \cup {1..n}

\* The files lists a step may carry: none or one listed path.
NodeFiles == {<<>>} \cup {<<f>> : f \in ListedFiles}

\* The plans create_plan may build from the model's answer: up to MaxNodes
\* steps, in the order of the answer (the order of the nodes dict).
ComposerPlans ==
    UNION {[1..n -> {ComposerNode(d, f) : d \in NodeDependencies(n), f \in NodeFiles}]
             : n \in 1..MaxNodes}

\* execute_plan has not been called.
NoComposer ==
    [at |-> "idle", ready_nodes |-> <<>>, results |-> <<>>, node |-> None,
     index |-> 0, completed |-> 0, failed |-> 0]

\* get_ready_nodes: the pending nodes, in the order of the dict, whose
\* dependencies that are in the dict are all completed.
RECURSIVE ready_from(_, _)
ready_from(ns, i) ==
    IF i > Len(ns) THEN <<>>
    ELSE (IF /\ ns[i].status = "pending"
             /\ \A d \in ns[i].dependencies :
                   d \in 1..Len(ns) => ns[d].status = "completed"
          THEN <<i>> ELSE <<>>) \o ready_from(ns, i + 1)

get_ready_nodes(ns) == ready_from(ns, 1)

\* A failure that also fails every node still pending.
node_failed_FailsPending(ns, n) ==
    [i \in DOMAIN ns |->
        IF i = n \/ ns[i].status = "pending"
        THEN [ns[i] EXCEPT !.status = "failed"] ELSE ns[i]]

\* execute_node's except branch: the node is failed; no other node is touched.
node_failed(ns, n) == [ns EXCEPT ![n].status = "failed"]

\* The number of entries of a results list that are True, and that are not.
RECURSIVE count_true(_)
count_true(rs) ==
    IF rs = <<>> THEN 0
    ELSE (IF Head(rs) THEN 1 ELSE 0) + count_true(Tail(rs))

\* execute_plan() is called: both counters start at 0.
ExecutePlan ==
    /\ composer.at = "idle"
    /\ Len(nodes) > 0
    /\ composer' = [NoComposer EXCEPT !.at = "top"]
    /\ UNCHANGED <<svcVars, allocations, arg, sandboxVars, nodes, chatVars, notExt>>

\* The top of the while loop: get_ready_nodes(); the loop is left when the
\* list is empty, else one coroutine per ready node is handed to gather.
GetReadyNodes ==
    /\ composer.at = "top"
    /\ LET ready_nodes == get_ready_nodes(nodes)
       IN composer' = [composer EXCEPT
                         !.at = IF ready_nodes = <<>> THEN "done" ELSE "gather",
                         !.ready_nodes = ready_nodes,
                         !.results = <<>>]
    /\ UNCHANGED <<svcVars, allocations, arg, sandboxVars, nodes, chatVars, notExt>>

\* gather runs the next coroutine: execute_node has no await, so it runs to
\* its end before the next one starts. The node is set running, the context
\* is gathered and generate_code is called; when that raises the node is
\* failed and the coroutine returns False, else the file loop is entered.
StartNode ==
    /\ composer.at = "gather"
    /\ Len(composer.results) < Len(composer.ready_nodes)
    /\ LET n == composer.ready_nodes[Len(composer.results) + 1]
       IN \E generated \in BOOLEAN :
             IF generated
             THEN /\ nodes' = [nodes EXCEPT ![n].status = "running"]
                  /\ composer' = [composer EXCEPT !.at = "node", !.node = n,
                                                  !.index = 0]
             ELSE /\ nodes' = node_failed(nodes, n)
                  /\ composer' = [composer EXCEPT !.results = Append(@, FALSE)]
    /\ UNCHANGED <<svcVars, allocations, arg, sandboxVars, chatVars, notExt>>

\* One pass of "for file_path in node.files_created": the file is written
\* and str(full_path) is appended to the very list the loop runs over; a
\* write that raises fails the node.
WriteFile ==
    /\ composer.at = "node"
    /\ composer.index < Len(nodes[composer.node].files_created)
    /\ Len(nodes[composer.node].files_created) < MaxFiles
    /\ LET n == composer.node
           file_path == nodes[n].files_created[composer.index + 1]
       IN \E written \in BOOLEAN :
             IF written
             THEN /\ nodes' = [nodes EXCEPT ![n].files_created =
                                                Append(@, full_path(file_path))]
                  /\ composer' = [composer EXCEPT !.index = @ + 1]
             ELSE /\ nodes' = node_failed(nodes, n)
                  /\ composer' = [composer EXCEPT !.at = "gather", !.node = None,
                                                  !.results = Append(@, FALSE)]
    /\ UNCHANGED <<svcVars, allocations, arg, sandboxVars, chatVars, notExt>>

\* The file loop has run over the whole list: the node is completed and the
\* coroutine returns True.
FinishNode ==
    /\ composer.at = "node"
    /\ composer.index = Len(nodes[composer.node].files_created)
    /\ nodes' = [nodes EXCEPT ![composer.node].status = "completed"]
    /\ composer' = [composer EXCEPT !.at = "gather", !.node = None,
                                    !.results = Append(@, TRUE)]
    /\ UNCHANGED <<svcVars, allocations, arg, sandboxVars, chatVars, notExt>>

\* gather has returned: each result that is True counts as completed, every
\* other one as failed; back to the top of the loop.
CountResults ==
    /\ composer.at = "gather"
    /\ Len(composer.results) = Len(composer.ready_nodes)
    /\ composer' = [composer EXCEPT
                      !.at = "top",
                      !.completed = @ + count_true(composer.results),
                      !.failed = @ + Len(composer.results)
                                   - count_true(composer.results)]
    /\ UNCHANGED <<svcVars, allocations, arg, sandboxVars, nodes, chatVars, notExt>>

\* --------------------------------------------------------------- chat engine
\* ChatEngine._apply_patch / _validate_patch (cognition/chat/chat_engine.py).
\* A file content is the sequence of its lines.
CodeLines == {"x = 1", "value = 12345", "def broken(:"}

\* len() of a line with its newline.
line_len(l) ==
    CASE l = "x = 1"         -> 6
      [] l = "value = 12345" -> 14
      [] l = "def broken(:"  -> 13
      [] OTHER               -> 1

RECURSIVE text_len(_)
text_len(ls) == IF ls = <<>> THEN 0 ELSE line_len(Head(ls)) + text_len(Tail(ls))

\* compile(content, path, 'exec') raises SyntaxError on the broken line.
compiles(ls) == \A k \in 1..Len(ls) : ls[k] # "def broken(:"

\* _validate_patch: files that are not Python pass; Python files pass when
\* compile raises no SyntaxError.
validate_patch(ls, suffix) == suffix # ".py" \/ compiles(ls)

\* The target files: a Python file or a text file that is absent or holds
\* up to MaxLines lines.
RECURSIVE texts(_)
texts(n) ==
    IF n = 0 THEN {<<>>}
    ELSE texts(n - 1) \cup {Append(t, l) : t \in texts(n - 1), l \in CodeLines}

WorkspaceFiles ==
    [suffix : {".py", ".txt"}, exists : BOOLEAN, content : texts(MaxLines)]
        \ {f \in [suffix : {".py", ".txt"}, exists : {FALSE},
                  content : texts(MaxLines)] : f.content # <<>>}

\* No patch is being applied to any file.
NoWorkspaceFile == [suffix |-> "", exists |-> FALSE, content |-> <<>>]

\* The diff strings the model may answer with: an optional fenced code block
\* of one line, and an optional hunk "@@ -start,.. @@" that deletes up to one
\* line and adds up to one line.
Patches ==
    [block : texts(1), hunk : BOOLEAN, start : 1..2, deletes : 0..1,
     adds : texts(1)]

\* The unified-diff part of _apply_patch (lines 178-219): without a hunk the
\* old lines are kept; a hunk keeps old_lines[:old_idx] (or nothing when
\* old_idx is past the end), skips the deleted lines, adds the added ones
\* and appends what remains of the old lines.
diff_applied(old, d) ==
    IF ~d.hunk THEN old
    ELSE LET old_idx == d.start - 1
             kept    == IF old_idx < Len(old) THEN SubSeq(old, 1, old_idx) ELSE <<>>
             after   == old_idx + d.deletes
             rest    == IF after < Len(old) THEN SubSeq(old, after + 1, Len(old))
                        ELSE <<>>
         IN  kept \o d.adds \o rest

\* The fenced part (lines 165-176): a code block with text of more than ten
\* characters is appended to the old content after an empty line.
block_tried(d) == d.block # <<>> /\ text_len(d.block) > 10
block_applied(old, d) == old \o <<"", "">> \o d.block

\* What a call leaves: whether it raised, whether the target is in the list
\* it returned, whether a validation failed, whether a write was refused,
\* and the content the file had before the call.
Outcome(raised, patched, rejected, refused, before) ==
    [op |-> "apply_patch", raised |-> raised, patched |-> patched,
     rejected |-> rejected, refused |-> refused, before |-> before]

\* _apply_patch(diff_str, target_file) on a file system that takes the
\* call's writes (writable) or refuses them with an OSError.
apply_patch(f, d, writable) ==
    LET old == f.content
        created == [f EXCEPT !.exists = TRUE]
        block_ok == block_tried(d) /\ validate_patch(block_applied(old, d), f.suffix)
        block_bad == block_tried(d) /\ ~block_ok
        new == diff_applied(old, d)
    IN  IF ~f.exists /\ ~writable
        THEN [file |-> f, outcome |-> Outcome(TRUE, FALSE, FALSE, TRUE, old)]
        ELSE IF block_ok
        THEN IF writable
             THEN [file |-> [created EXCEPT !.content = block_applied(old, d)],
                   outcome |-> Outcome(FALSE, TRUE, FALSE, FALSE, old)]
             ELSE [file |-> created,
                   outcome |-> Outcome(TRUE, FALSE, FALSE, TRUE, old)]
        ELSE IF validate_patch(new, f.suffix)
        THEN IF writable
             THEN [file |-> [created EXCEPT !.content = new],
                   outcome |-> Outcome(FALSE, TRUE, block_bad, FALSE, old)]
             ELSE [file |-> created,
                   outcome |-> Outcome(TRUE, FALSE, block_bad, TRUE, old)]
        ELSE [file |-> created,
              outcome |-> Outcome(TRUE, FALSE, TRUE, ~writable, old)]

\* A call of _apply_patch on the target file.
ApplyPatch ==
    /\ workspace_file.suffix # ""
    /\ Len(workspace_file.content) <= MaxLines
    /\ \E d \in Patches, writable \in BOOLEAN :
          LET applied == apply_patch(workspace_file, d, writable)
          IN  /\ workspace_file' = applied.file
              /\ svc_call' = applied.outcome
    /\ UNCHANGED <<approvalVars, consentVars, queueVars, quotas, allocations,
                   arg, sandboxVars, composerVars, notExt>>

\* ------------------------------------------------------------ specification
\* EventBus.__init__: no listeners, empty queue and dead-letter list, not
\* running.
NewBus ==
    /\ listeners = [t \in BusEventTypes |-> <<>>]
    /\ wildcard_listeners = <<>>
    /\ event_queue = <<>>
    /\ dead_letter_queue = <<>>
    /\ bus_running = FALSE
    /\ event_count = 0
    /\ delivery = NoDelivery
    /\ worker_threads = <<>>
    /\ joining = FALSE
    /\ stop_log = NoStop
    /\ publish_log = NoPublish

\* The approval engine with auto-approval as given, the consent store with
\* the file it loaded, the mission queue and the quota manager, as their
\* constructors leave them.
NewServices(auto, loaded) ==
    /\ auto_approve_low_risk = auto
    /\ pending_requests = {}
    /\ history = <<>>
    /\ request_count = 0
    /\ consents = loaded
    /\ time_now = 1
    /\ mission_queue = <<>>
    /\ enqueue_count = 0
    /\ quotas = [t \in ResourceTypes |-> NoQuota]
    /\ svc_call = NoCall
    /\ allocations = {}

\* No call of a function without state is under way.
NoArgument == arg = <<>>

\* No sandbox runner has been built, no composer plan made, no patch target
\* chosen.
NoSandbox ==
    /\ runner = NoRunner
    /\ host = [binary |-> FALSE, engine |-> FALSE, windows |-> FALSE]

NoPlan ==
    /\ nodes = <<>>
    /\ composer = NoComposer

NoPatch == workspace_file = NoWorkspaceFile

NoTools == NoSandbox /\ NoPlan /\ NoPatch

\* A controller built on plan ts, before its first call.
NewController(ts) ==
    /\ tasks = ts
    /\ mission = NewMission(Len(ts))
    /\ db_steps = [i \in 1..Len(ts) |-> NoRow]
    /\ handler_runs = [i \in 1..Len(ts) |-> 0]
    /\ db_mission = MissionRow(mission)
    /\ published = <<>>
    /\ call = [op |-> "init", handler |-> NoHandler, step |-> NoStep]
    /\ ret = [raised |-> FALSE, success |-> FALSE, step_id |-> None]
    /\ clock = 0
    /\ ready = <<>>
    /\ order = <<>>
    /\ gpc = "idle"

Init ==
    /\ \E n \in 1..MaxTasks : \E ts \in Plans(n) : NewController(ts)
    /\ NewBus
    /\ NewServices(TRUE, {})
    /\ NoTools
    /\ NoArgument

\* The plan of n tasks the decomposer builds for a generic mission: each
\* task depends on the one before it (setup, development, testing, ...).
Pipeline(n) == [i \in 1..n |-> TaskNode(IF i = 1 THEN {} ELSE {i - 1})]

\* A controller on a decomposer-built pipeline.
HandlerInit ==
    /\ \E n \in 1..MaxTasks : NewController(Pipeline(n))
    /\ NewBus
    /\ NewServices(TRUE, {})
    /\ NoTools
    /\ NoArgument

\* The event bus of a process whose plan has one task.
BusInit ==
    /\ NewController(<<TaskNode({})>>)
    /\ NewBus
    /\ NewServices(TRUE, {})
    /\ NoTools
    /\ NoArgument

\* The mission queue and the quota manager of such a process.
ServicesInit == BusInit

\* The approval engine of such a process, built with either setting of
\* auto-approval.
ApprovalEngineInit ==
    /\ NewController(<<TaskNode({})>>)
    /\ NewBus
    /\ \E auto \in BOOLEAN : NewServices(auto, {})
    /\ NoTools
    /\ NoArgument

\* The consent store of such a process, which loads one of the consent files.
ConsentInit ==
    /\ NewController(<<TaskNode({})>>)
    /\ NewBus
    /\ \E loaded \in LoadedConsents : NewServices(TRUE, loaded)
    /\ NoTools
    /\ NoArgument

\* The mission controller driven by its callers.
Next == Start \/ ExecuteNextStep

Spec == Init /\ [][Next]_vars

\* The controller driven by callers that may also cancel the mission.
CancelNext == Start \/ ExecuteNextStep \/ Cancel

CancelSpec == Init /\ [][CancelNext]_vars

\* The controller on a plan whose operations carry risk classifications.
ApprovalNext == Start \/ ExecuteClassifiedStep

ApprovalSpec == Init /\ [][ApprovalNext]_vars

\* The controller on a plan of testing and development tasks.
HandlerNext == Start \/ ExecuteTestingStep \/ ExecuteDevelopmentStep

HandlerSpec == HandlerInit /\ [][HandlerNext]_vars

\* One step of a worker thread.
WorkerStep == WorkerTest \/ WorkerGet \/ WorkerEmpty \/ WorkerProcess

\* The event bus with its subscribers, publishers and worker.
BusNext ==
    \/ Subscribe
    \/ SubscribeAll
    \/ Unsubscribe
    \/ BusStart
    \/ Publish
    \/ PublishAsync
    \/ WorkerTest
    \/ WorkerGet
    \/ WorkerEmpty
    \/ WorkerProcess

BusSpec == BusInit /\ [][BusNext]_vars

\* The event bus started and stopped by its owner while events are
\* published; the worker threads run whenever they have a step to take.
LifecycleNext ==
    \/ SubscribeAll
    \/ BusStart
    \/ BusStop
    \/ BusStopReturn
    \/ PublishQueued
    \/ WorkerTest
    \/ WorkerGet
    \/ WorkerEmpty
    \/ WorkerProcess

LifecycleSpec == BusInit /\ [][LifecycleNext]_vars /\ WF_vars(WorkerStep)

\* The approval engine called by requesters and resolvers.
ApprovalEngineNext == RequestApproval \/ Approve \/ Deny \/ IsApproved

ApprovalEngineSpec == ApprovalEngineInit /\ [][ApprovalEngineNext]_vars

\* The consent store called while time passes.
ConsentNext == Grant \/ Revoke \/ Check \/ ListConsents \/ Tick

ConsentSpec == ConsentInit /\ [][ConsentNext]_vars

\* The mission queue called by the launcher.
QueueNext == Enqueue \/ Dequeue \/ IsEmpty

QueueSpec == ServicesInit /\ [][QueueNext]_vars

\* The quota manager called by the launcher.
QuotaNext == SetQuota \/ CheckQuota

QuotaSpec == ServicesInit /\ [][QuotaNext]_vars

\* A process as launch_system builds it: run_command / create_mission build
\* the controller and call start() and execute_next_step() on it, and the
\* mission queue, the quota manager and the resource allocator registered by
\* the launcher can be called.
AdmissionNext ==
    \/ Start
    \/ ExecuteNextStep
    \/ Enqueue
    \/ Dequeue
    \/ CheckQuota
    \/ Allocate
    \/ Deallocate

AdmissionSpec == ServicesInit /\ [][AdmissionNext]_vars

\* The risk classifier called on an operation text.
ClassifierInit ==
    /\ NewController(<<TaskNode({})>>)
    /\ NewBus
    /\ NewServices(TRUE, {})
    /\ NoTools
    /\ arg \in Operations

ClassifierNext == Classify

ClassifierSpec == ClassifierInit /\ [][ClassifierNext]_vars

\* The risk scorer called on a code sample that grows.
ScorerInit ==
    /\ NewController(<<TaskNode({})>>)
    /\ NewBus
    /\ NewServices(TRUE, {})
    /\ NoTools
    /\ arg \in [code : CodeSamples, capabilities : Capabilities]

ScorerNext == Assess \/ AppendAndAssess

ScorerSpec == ScorerInit /\ [][ScorerNext]_vars

\* The denylist called on a code text.
DenylistInit ==
    /\ NewController(<<TaskNode({})>>)
    /\ NewBus
    /\ NewServices(TRUE, {})
    /\ NoTools
    /\ arg \in CodeTexts

DenylistNext == CheckCode

DenylistSpec == DenylistInit /\ [][DenylistNext]_vars

\* The bus after start(): _running set and one worker thread at the top of
\* its loop; subscribe_all may have been called before, with handler 2.
StartedBus ==
    /\ listeners = [t \in BusEventTypes |-> <<>>]
    /\ wildcard_listeners \in {<<>>, <<2>>}
    /\ event_queue = <<>>
    /\ dead_letter_queue = <<>>
    /\ bus_running = TRUE
    /\ event_count = 0
    /\ delivery = NoDelivery
    /\ worker_threads = <<[at |-> "top", event |-> NoEvent]>>
    /\ joining = FALSE
    /\ stop_log = NoStop
    /\ publish_log = NoPublish

DeliveryInit ==
    /\ NewController(<<TaskNode({})>>)
    /\ StartedBus
    /\ NewServices(TRUE, {})
    /\ NoTools
    /\ NoArgument

\* The started bus with subscribe, unsubscribe and publish called on it,
\* each publish call noted in the history.
DeliveryNext ==
    \/ Subscribe
    \/ Unsubscribe
    \/ PublishLogged
    \/ WorkerTest
    \/ WorkerGet
    \/ WorkerEmpty
    \/ WorkerProcess

DeliverySpec == DeliveryInit /\ [][DeliveryNext]_vars

\* A runner of one of the three kinds, just built, on some machine.
RunnerInit ==
    /\ NewController(<<TaskNode({})>>)
    /\ NewBus
    /\ NewServices(TRUE, {})
    /\ NoArgument
    /\ runner \in {NewRunner(k) : k \in RunnerKinds}
    /\ host \in Hosts
    /\ NoPlan
    /\ NoPatch

RunnerNext == Execute \/ IsAvailable \/ HostChange

RunnerSpec == RunnerInit /\ [][RunnerNext]_vars

\* A composer engine after create_plan, before execute_plan.
ComposerInit ==
    /\ NewController(<<TaskNode({})>>)
    /\ NewBus
    /\ NewServices(TRUE, {})
    /\ NoArgument
    /\ NoSandbox
    /\ nodes \in ComposerPlans
    /\ composer = NoComposer
    /\ NoPatch

ComposerNext ==
    \/ ExecutePlan
    \/ GetReadyNodes
    \/ StartNode
    \/ WriteFile
    \/ FinishNode
    \/ CountResults

ComposerSpec == ComposerInit /\ [][ComposerNext]_vars

\* A chat engine about to patch a file of its workspace.
ChatInit ==
    /\ NewController(<<TaskNode({})>>)
    /\ NewBus
    /\ NewServices(TRUE, {})
    /\ NoArgument
    /\ NoSandbox
    /\ NoPlan
    /\ workspace_file \in WorkspaceFiles

ChatNext == ApplyPatch

ChatSpec == ChatInit /\ [][ChatNext]_vars

\* The task graph driven by a get_ready_tasks / mark loop. The loop is
\* sequential code: it keeps running while it has a step to take.
GraphNext == GetReadyTasks \/ MarkCompleted \/ MarkFailed

GraphSpec == Init /\ [][GraphNext]_vars /\ WF_vars(GraphNext)

\* get_execution_order() called on a fresh plan (run.py line 58).
OrderNext == CallExecutionOrder \/ OrderPass \/ OrderReturn

OrderSpec == Init /\ [][OrderNext]_vars

\* ------------------------------------------------------------------ claims
Ids == 1..Len(tasks)

\* The dependencies of task i that name a task of the plan.
InGraphDeps(i) == tasks[i].dependencies \cap Ids

\* The plan has no dependency cycle: its tasks can be ranked so that every
\* in-graph dependency ranks below the task that lists it.
AcyclicPlan ==
    \E rank \in [Ids -> Ids] :
        \A i \in Ids : \A d \in InGraphDeps(i) : rank[d] < rank[i]

\* The controller call just made was execute_next_step.
Stepped == call.op = "execute_next_step"

\* C1: a task is dispatched to a handler (set running) only if every
\* dependency id it lists that names a task of the plan is completed; ids
\* that name no task count as satisfied.
C1_RunOnlyAfterDeps ==
    \A i \in Ids :
        (handler_runs[i] > 0 \/ tasks[i].status \in {"running", "completed", "failed"})
            => \A d \in InGraphDeps(i) : tasks[d].status = "completed"

\* C1 witness: a task with two in-graph dependencies and a dangling-free
\* plan has been dispatched.
C1_Witness ==
    \E i \in Ids : handler_runs[i] = 1 /\ Cardinality(InGraphDeps(i)) >= 2

\* C2: over any sequence of calls, each task is dispatched to a handler at
\* most once.
C2_AtMostOnce == \A i \in Ids : handler_runs[i] <= 1

\* C2 witness: a task has completed and a later execute_next_step call ran
\* without selecting it again.
C2_Witness ==
    \E i \in Ids :
        /\ handler_runs[i] = 1
        /\ tasks[i].status = "completed"
        /\ Stepped
        /\ ret.step_id # i

\* C3: on an acyclic plan whose handlers all succeed, once start() was called
\* and an execute_next_step() call returns a null step id (the driver's loop
\* ends), the mission is completed and every task was executed.
C3_DriverCompletes ==
    (/\ AcyclicPlan
     /\ published # <<>>
     /\ Head(published).type = "MISSION_STARTED"
     /\ \A i \in Ids : tasks[i].status # "failed"
     /\ Stepped
     /\ ret.step_id = None)
        => /\ mission.status = "completed"
           /\ \A i \in Ids : handler_runs[i] = 1

\* Some task was marked failed.
AnyFailed == \E i \in Ids : tasks[i].status = "failed"

\* C4: on a plan without a dependency cycle, the loop get_ready_tasks() /
\* mark_completed() on every returned task eventually makes is_complete()
\* true (a run that marks a returned task failed instead is outside the claim).
C4_EventuallyComplete == AcyclicPlan ~> (is_complete(tasks) \/ AnyFailed)

\* C4 witness: the loop has ended with is_complete() true on a three-task
\* plan that has both an in-graph and a dangling dependency.
C4_Witness ==
    /\ gpc = "done"
    /\ is_complete(tasks)
    /\ Len(tasks) = 3
    /\ \E i \in Ids : InGraphDeps(i) # {}
    /\ \E i \in Ids : tasks[i].dependencies \ Ids # {}

\* The ids, in insertion order, of the tasks of ts that are pending and whose
\* every dependency id is absent from ts or completed.
ExpectedReady(ts) ==
    SelectSeq([i \in 1..Len(ts) |-> i],
              LAMBDA i : /\ ts[i].status = "pending"
                         /\ \A d \in ts[i].dependencies :
                                d \notin 1..Len(ts) \/ ts[d].status = "completed")

\* C5: a get_ready_tasks() call returns, in insertion order, exactly the
\* pending tasks whose every dependency id is absent or completed, sets each
\* of them to ready and changes no other task.
C5_ReadyExactly ==
    [][(gpc = "idle" /\ gpc' # "idle")
        => /\ ready' = ExpectedReady(tasks)
           /\ tasks' = [i \in Ids |->
                          IF \E k \in 1..Len(ready') : ready'[k] = i
                          THEN [tasks[i] EXCEPT !.status = "ready"]
                          ELSE tasks[i]]]_vars

\* C5 witness: on {1 (dep on a missing id), 2 (dep 1), 3 (dep 1)} task 1 was
\* returned by the first call and completed, and the next call returned 2, 3.
C5_Witness ==
    /\ Len(tasks) = 3
    /\ tasks[1].dependencies = {4}
    /\ tasks[2].dependencies = {1}
    /\ tasks[3].dependencies = {1}
    /\ tasks[1].status = "completed"
    /\ ready = <<2, 3>>
    /\ tasks[2].status = "ready"
    /\ tasks[3].status = "ready"

\* C6: when get_execution_order() returns, the list holds every task id
\* exactly once, and every task comes after each of its in-graph dependencies.
C6_OrderIsTopological ==
    gpc = "returned"
        => /\ Len(order) = Len(tasks)
           /\ \A i \in Ids : \E k \in 1..Len(order) : order[k] = i
           /\ \A k \in 1..Len(order) : \A d \in InGraphDeps(order[k]) :
                  \E j \in 1..(k - 1) : order[j] = d

\* C6 witness: the order was returned for a three-task plan in which a task
\* depends on one inserted after it.
C6_Witness ==
    /\ gpc = "returned"
    /\ Len(tasks) = 3
    /\ \E i \in Ids : \E d \in InGraphDeps(i) : d > i

\* C7: get_execution_order() terminates on every acyclic plan, also when a
\* task lists a dependency id that names no task.
C7_OrderTerminates == AcyclicPlan => gpc # "spinning"

\* C8: on a plan with a dependency cycle, when the execute_next_step loop
\* ends (null step id), the defect has been reported as a failure.
C8_CycleReported ==
    (~AcyclicPlan /\ Stepped /\ ret.step_id = None)
        => mission.status = "failed" /\ mission.error # "None"

\* The events a call appended to the published list.
NewEvents == SubSeq(published', Len(published) + 1, Len(published'))

\* C9: an execute_next_step call whose handler raises does not re-raise: it
\* returns (False, step id), the step's record is failed with the error, the
\* task is failed, the mission is failed with the same error, and exactly one
\* STEP_FAILED event (for that step, with that error) is published.
C9_HandlerRaiseContained ==
    [][(clock' # clock /\ call'.op = "execute_next_step"
            /\ call'.handler.kind = "raises")
        => LET id == ret'.step_id
               e  == call'.handler.result
           IN  /\ ~ret'.raised
               /\ ~ret'.success
               /\ id \in Ids
               /\ handler_runs'[id] = handler_runs[id] + 1
               /\ db_steps'[id].status = "failed"
               /\ db_steps'[id].error = e
               /\ tasks'[id].status = "failed"
               /\ mission'.status = "failed"
               /\ mission'.error = e
               /\ Cardinality({k \in 1..Len(NewEvents) :
                                 NewEvents[k].type = "STEP_FAILED"}) = 1
               /\ NewEvents[Len(NewEvents)] = create_event("STEP_FAILED", id, e)]_vars

\* C9 witness: a handler raised in the call just made, after an earlier step
\* had completed.
C9_Witness ==
    /\ Stepped
    /\ call.handler.kind = "raises"
    /\ mission.completed_steps >= 1

\* C10: once a step has failed, an execute_next_step call returns
\* (False, None), dispatches no task, and leaves the mission's status, error
\* and completed_steps as they were; a failed status stays failed.
C10_NothingAfterFailure ==
    [][(AnyFailed /\ clock' # clock /\ call'.op = "execute_next_step")
        => /\ ret' = [raised |-> FALSE, success |-> FALSE, step_id |-> None]
           /\ handler_runs' = handler_runs
           /\ mission'.status = mission.status
           /\ mission'.error = mission.error
           /\ mission'.completed_steps = mission.completed_steps
           /\ (mission.status = "failed" => mission'.status = "failed")]_vars

\* C10 witness: a step failed, a task that depends on it is still pending,
\* and a later execute_next_step call has returned without a handler.
C10_Witness ==
    /\ AnyFailed
    /\ mission.status = "failed"
    /\ Stepped
    /\ call.handler.kind = "none"
    /\ \E i \in Ids : \E d \in InGraphDeps(i) :
           tasks[i].status = "pending" /\ tasks[d].status = "failed"

\* The mission-level event types.
MissionEventTypes ==
    {"MISSION_CREATED", "MISSION_STARTED", "MISSION_COMPLETED", "MISSION_FAILED",
     "MISSION_PAUSED", "MISSION_RESUMED", "MISSION_CANCELLED"}

\* The terminal mission statuses.
TerminalStatuses == {"completed", "failed", "cancelled"}

\* C11: once the mission status is completed, failed or cancelled, no
\* start() or execute_next_step() call changes the MissionState (status,
\* started_at, completed_at, completed_steps, error) or publishes a further
\* mission-level event.
C11_TerminalImmutable ==
    [][(mission.status \in TerminalStatuses /\ clock' # clock)
        => /\ mission'.status = mission.status
           /\ mission'.started_at = mission.started_at
           /\ mission'.completed_at = mission.completed_at
           /\ mission'.completed_steps = mission.completed_steps
           /\ mission'.error = mission.error
           /\ \A k \in 1..Len(NewEvents) :
                  NewEvents[k].type \notin MissionEventTypes]_vars

\* The positions in `published` of the events of the given types for step i.
StepEvents(i, types) ==
    {k \in 1..Len(published) :
        published[k].step_id = i /\ published[k].type \in types}

\* C12: the mission status is completed only when no task is ready and every
\* task is completed or skipped; completed_steps counts the successful steps
\* (one increment per STEP_COMPLETED), so a completed mission has
\* completed_steps equal to the number of tasks and to total_steps.
C12_CompletedOnlyWhenAllDone ==
    /\ mission.completed_steps =
           Cardinality({k \in 1..Len(published) :
                           published[k].type = "STEP_COMPLETED"})
    /\ mission.completed_steps =
           Cardinality({i \in Ids : tasks[i].status = "completed"})
    /\ mission.status = "completed"
          => /\ \A i \in Ids : tasks[i].status \in {"completed", "skipped"}
             /\ mission.completed_steps = Len(tasks)
             /\ mission.completed_steps = mission.total_steps

\* C12 witness: a three-task mission was completed by the call just made.
C12_Witness ==
    /\ mission.status = "completed"
    /\ Len(tasks) = 3
    /\ mission.completed_steps = 3
    /\ Stepped
    /\ Len(published) > 0
    /\ published[Len(published)].type = "MISSION_COMPLETED"

\* C15: every step that was executed has exactly one STEP_STARTED event and
\* exactly one of STEP_COMPLETED / STEP_FAILED, the former published before
\* the latter; a task that was not executed has no step event.
C15_StepEventsOrdered ==
    \A i \in Ids :
        IF handler_runs[i] = 0
        THEN StepEvents(i, {"STEP_STARTED", "STEP_COMPLETED", "STEP_FAILED"}) = {}
        ELSE \E k, j \in 1..Len(published) :
                /\ StepEvents(i, {"STEP_STARTED"}) = {k}
                /\ StepEvents(i, {"STEP_COMPLETED", "STEP_FAILED"}) = {j}
                /\ k < j

\* C15 witness: one step has completed and a later one has failed, the
\* second by a handler that raised.
C15_Witness ==
    /\ \E i \in Ids : StepEvents(i, {"STEP_COMPLETED"}) # {}
    /\ \E i \in Ids : StepEvents(i, {"STEP_FAILED"}) # {}
    /\ call.handler.kind = "raises"

\* C16: whenever start() or execute_next_step() has returned, the missions
\* row equals the in-memory MissionState (status, completed_steps, error, and
\* the timestamps), and the row of the step the call executed equals the
\* step's final StepState, which is completed or failed.
C16_PersistedAfterCall ==
    (call.op \in {"start", "execute_next_step"} /\ ~ret.raised)
        => /\ db_mission.status = mission.status
           /\ db_mission.completed_steps = mission.completed_steps
           /\ db_mission.error = mission.error
           /\ db_mission.started_at = mission.started_at
           /\ db_mission.completed_at = mission.completed_at
           /\ ret.step_id # None
                 => /\ call.step.status \in {"completed", "failed"}
                    /\ db_steps[ret.step_id].status = call.step.status
                    /\ db_steps[ret.step_id].error = call.step.error
                    /\ db_steps[ret.step_id].started_at = call.step.started_at
                    /\ db_steps[ret.step_id].completed_at = call.step.completed_at

\* C16 witness: the call just made executed a step that failed, after an
\* earlier step had completed and after start().
C16_Witness ==
    /\ Stepped
    /\ ret.step_id # None
    /\ call.step.status = "failed"
    /\ mission.completed_steps >= 1
    /\ mission.started_at # None

\* An execute_next_step call is made by the step taken.
StepCall == clock' # clock /\ call'.op = "execute_next_step"

\* C13: every execute_next_step call made while the mission status is
\* cancelled dispatches no task and leaves every task status, the
\* completed-step counter and the mission status unchanged.
C13_CancelledStopsDispatch ==
    [][(mission.status = "cancelled" /\ StepCall)
        => /\ handler_runs' = handler_runs
           /\ call'.handler.kind = "none"
           /\ \A i \in Ids : tasks'[i].status = tasks[i].status
           /\ mission'.completed_steps = mission.completed_steps
           /\ mission'.status = "cancelled"]_vars

\* C14: a step whose operation requires approval (its classification is not
\* auto-approved) does not reach its handler in a call that has not obtained
\* an approval: the call publishes STEP_APPROVAL_REQUIRED for the step and
\* pauses the mission instead, and neither completes nor runs the task.
C14_ApprovalBeforeDispatch ==
    [][(/\ StepCall
        /\ call'.handler.kind # "none"
        /\ requires_approval(classify(call'.handler.categories), TRUE))
        => /\ handler_runs' = handler_runs
           /\ mission'.status = "paused"
           /\ \E k \in 1..Len(NewEvents) :
                  NewEvents[k].type = "STEP_APPROVAL_REQUIRED"
           /\ \A i \in Ids : tasks'[i].status \notin {"running", "completed"}
                                  \/ tasks'[i].status = tasks[i].status]_vars

\* The handler of the call being made is the one of the given task type.
Handles(type) ==
    /\ StepCall
    /\ call'.handler.kind # "none"
    /\ call'.handler.task_type = type

\* The tests of a testing step failed and its one retry did not repair
\* them: a refiner query raised, or the second test run failed too.
RetryFailed(in) ==
    /\ in.t1 = "fail"
    /\ \/ in.q1.raises
       \/ (in.q1.confidence < 6 /\ in.q2.raises)
       \/ in.t2 = "fail"

\* C17: a testing step whose tests fail and whose retry does not make them
\* pass (or whose refiner call raises) ends failed: the call returns
\* (False, step id), the step record and the task are failed and the mission
\* is failed.
C17_FailedTestsFailStep ==
    [][(Handles("testing") /\ RetryFailed(call'.handler.inputs))
        => /\ ~ret'.success
           /\ ret'.step_id \in Ids
           /\ db_steps'[ret'.step_id].status = "failed"
           /\ tasks'[ret'.step_id].status = "failed"
           /\ mission'.status = "failed"]_vars

\* C18: within one execute_next_step call on a testing task the tests are
\* run at most twice and refactor_on_error is called at most once, and the
\* refactor_on_error call issues at most two refiner queries, whatever
\* confidences the refiner returns.
C18_RetryBounded ==
    (Stepped /\ call.handler.kind # "none" /\ call.handler.task_type = "testing")
        => /\ call.handler.test_runs <= 2
           /\ call.handler.refactor_calls <= 1
           /\ call.handler.queries <= 2
           /\ call.handler.test_runs >= 1
           /\ (call.handler.inputs.t1 = "pass"
                  => call.handler.test_runs = 1 /\ call.handler.queries = 0)

\* C18 witness: a testing step whose first run failed, whose refiner
\* answered twice with a confidence below 0.6, and whose second run failed.
C18_Witness ==
    /\ Stepped
    /\ call.handler.kind # "none"
    /\ call.handler.task_type = "testing"
    /\ call.handler.inputs.t1 = "fail"
    /\ ~call.handler.inputs.q1.raises
    /\ call.handler.inputs.q1.confidence < 6
    /\ ~call.handler.inputs.q2.raises
    /\ call.handler.inputs.q2.confidence < 6
    /\ call.handler.inputs.t2 = "fail"
    /\ call.handler.test_runs = 2
    /\ call.handler.queries = 2

\* C19: a development step whose generator raised or returned placeholder
\* output succeeds on the template fallback, whatever polish_template
\* returns or raises: the step is completed and the mission is not failed.
C19_GeneratorFailureContained ==
    [][(Handles("development")
            /\ call'.handler.inputs.gen \in {"raises", "placeholder"})
        => /\ ret'.success
           /\ ret'.step_id \in Ids
           /\ tasks'[ret'.step_id].status = "completed"
           /\ mission'.status # "failed"]_vars

\* The positions of the handlers that raised in a delivery's invocation list.
Thrown(inv) == {k \in 1..Len(inv) : inv[k].outcome = "raises"}

\* C20: in the delivery of one event, every handler subscribed to it is
\* invoked, in list order, whether or not an earlier one raised; nothing is
\* raised to the caller; and the dead-letter list gains exactly one entry for
\* the event per handler that raised, so an event on which exactly one
\* handler raised is in the dead-letter list exactly once.
C20_HandlerFailureIsolated ==
    [][delivery'.event # delivery.event
        => LET e   == delivery'.event
               hs  == listeners[e.type] \o wildcard_listeners
               inv == delivery'.invoked
               n   == Len(dead_letter_queue)
           IN  /\ Len(inv) = Len(hs)
               /\ \A k \in 1..Len(hs) : inv[k].handler = hs[k]
               /\ ~delivery'.raised
               /\ Len(dead_letter_queue') = n + Cardinality(Thrown(inv))
               /\ SubSeq(dead_letter_queue', 1, n) = dead_letter_queue
               /\ \A k \in (n + 1)..Len(dead_letter_queue') :
                      dead_letter_queue'[k] = e
               /\ (Cardinality(Thrown(inv)) = 1
                     => Cardinality({k \in 1..Len(dead_letter_queue') :
                                        dead_letter_queue'[k] = e}) = 1)]_vars

\* C20 witness: an event was delivered by the worker to two handlers, the
\* first of which raised and the second of which ran, and the event is the
\* one entry of the dead-letter list.
C20_Witness ==
    /\ bus_running
    /\ Len(delivery.invoked) = 2
    /\ delivery.invoked[1].outcome = "raises"
    /\ delivery.invoked[2].outcome = "ok"
    /\ delivery.invoked[1].handler # delivery.invoked[2].handler
    /\ dead_letter_queue = <<delivery.event>>

\* A subscriber list changed only by a subscription added at its end or by
\* one entry taken out, so that the entries it keeps stay in the order in
\* which they were subscribed.
KeepsSubscriptionOrder(old, new) ==
    \/ new = old
    \/ \E h \in Handlers : new = old \o <<h>>
    \/ \E k \in 1..Len(old) :
          new = [j \in 1..(Len(old) - 1) |-> IF j < k THEN old[j] ELSE old[j + 1]]

\* C21: every subscriber list is kept in subscription order, and the
\* delivery of an event calls first the handlers subscribed to the event's
\* type, in that order, and then the wildcard handlers, in that order.
C21_SpecificBeforeWildcard ==
    [][/\ \A t \in BusEventTypes :
             KeepsSubscriptionOrder(listeners[t], listeners'[t])
       /\ KeepsSubscriptionOrder(wildcard_listeners, wildcard_listeners')
       /\ (delivery'.event # delivery.event
             => LET specific == listeners[delivery'.event.type]
                    n        == Len(specific)
                    inv      == delivery'.invoked
                IN  /\ Len(inv) = n + Len(wildcard_listeners)
                    /\ \A k \in 1..n : inv[k].handler = specific[k]
                    /\ \A k \in 1..Len(wildcard_listeners) :
                           inv[n + k].handler = wildcard_listeners[k])]_vars

\* C21 witness: an event was delivered to one handler of its type and to a
\* different wildcard handler, and the type's handler was called first.
C21_Witness ==
    /\ delivery.event # NoEvent
    /\ Len(listeners[delivery.event.type]) = 1
    /\ Len(wildcard_listeners) = 1
    /\ listeners[delivery.event.type][1] # wildcard_listeners[1]
    /\ Len(delivery.invoked) = 2
    /\ delivery.invoked[1].handler = listeners[delivery.event.type][1]
    /\ delivery.invoked[2].handler = wildcard_listeners[1]

\* The worker threads that are inside the queue's get.
InGet == {w \in 1..Len(worker_threads) : worker_threads[w].at = "getting"}

\* C22: publish changes nothing but the queue, to which it appends the event;
\* a handler runs only in a worker thread; and the worker threads process the
\* events in the order in which they were enqueued: when the delivery of an
\* event ends, no event enqueued before it is still being processed.
C22_PublishEnqueuesInOrder ==
    [][/\ (event_queue' # event_queue /\ Len(event_queue') > Len(event_queue)
             => /\ event_queue' = Append(event_queue, event_queue'[Len(event_queue')])
                /\ delivery' = delivery
                /\ dead_letter_queue' = dead_letter_queue)
       /\ (delivery'.event # delivery.event
             => \A w \in 1..Len(worker_threads) :
                   worker_threads[w].at = "processing"
                      => worker_threads[w].event.id >= delivery'.event.id)]_vars

\* C23: at most one worker thread is taking events from the queue.
C23_SingleWorker == Cardinality(InGet) <= 1

\* C24: after a stop() and a later start(), no event that was in the queue
\* at the stop() (and was still in it at the start()) is delivered.
C24_NoDeliveryAcrossRestart ==
    [][(stop_log.restarted /\ delivery'.event # delivery.event)
          => delivery'.event.id \notin stop_log.pending]_vars

\* The ids of the requests held pending, and of those in the history.
PendingIds(pending) == {r.request_id : r \in pending}
HistoryIds(hist) == {hist[k].request_id : k \in 1..Len(hist)}

\* C25: a request_approval call with risk level "low" on an engine with
\* auto-approval returns a request with status auto_approved that the call
\* appends to the history and that is not held pending, then or later; any
\* other request_approval call returns a request with status pending that is
\* held pending and is not in the history.
C25_AutoApprovalOnlyLowRisk ==
    [][/\ (svc_call'.op = "request_approval"
             => LET r == svc_call'.request
                IN  /\ r.request_id \notin PendingIds(pending_requests)
                                             \cup HistoryIds(history)
                    /\ IF auto_approve_low_risk /\ r.risk_level = "low"
                       THEN /\ r.status = "auto_approved"
                            /\ history' = history \o <<r>>
                            /\ pending_requests' = pending_requests
                       ELSE /\ r.status = "pending"
                            /\ pending_requests' = pending_requests \cup {r}
                            /\ history' = history)
       /\ \A k \in 1..Len(history') :
             history'[k].status = "auto_approved"
                => history'[k].request_id \notin PendingIds(pending_requests')]_vars

\* C25 witness: on an engine with auto-approval, a low-risk request is in
\* the history as auto_approved while a high-risk request is held pending.
C25_Witness ==
    /\ auto_approve_low_risk
    /\ \E k \in 1..Len(history) :
          history[k].status = "auto_approved" /\ history[k].risk_level = "low"
    /\ \E r \in pending_requests : r.risk_level = "high" /\ r.status = "pending"

\* An approve or deny call was made.
ResolveCall == svc_call'.op \in {"approve", "deny"}

\* C26: approve / deny of a pending id takes the request out of the pending
\* set, appends it to the history with status approved / denied and the
\* resolver and reason given, and returns it; approve / deny of an id that
\* is not pending returns nothing and changes neither the pending set nor
\* the history.
C26_ResolveMovesToHistory ==
    [][ResolveCall
        => LET id    == svc_call'.request_id
               found == {r \in pending_requests : r.request_id = id}
           IN  IF found = {}
               THEN /\ svc_call'.request = NoRequest
                    /\ pending_requests' = pending_requests
                    /\ history' = history
               ELSE /\ pending_requests' = pending_requests \ found
                    /\ Len(history') = Len(history) + 1
                    /\ SubSeq(history', 1, Len(history)) = history
                    /\ svc_call'.request = history'[Len(history')]
                    /\ LET h == history'[Len(history')]
                       IN  /\ h.request_id = id
                           /\ h.status = (IF svc_call'.op = "approve"
                                          THEN "approved" ELSE "denied")
                           /\ h.resolved_by = svc_call'.resolved_by
                           /\ h.reason = svc_call'.reason
                           /\ \E r \in found : h.risk_level = r.risk_level]_vars

\* C26 witness: a request was approved by "admin", and a later deny of the
\* same id returned nothing.
C26_Witness ==
    /\ svc_call.op = "deny"
    /\ svc_call.request = NoRequest
    /\ \E k \in 1..Len(history) :
          /\ history[k].request_id = svc_call.request_id
          /\ history[k].status = "approved"
          /\ history[k].resolved_by = "admin"
    /\ pending_requests = {}

\* The request with the id was auto-approved or resolved by approve / by
\* deny.
WasApproved(hist, id) ==
    \E k \in 1..Len(hist) :
        hist[k].request_id = id /\ hist[k].status \in {"approved", "auto_approved"}
WasDenied(hist, id) ==
    \E k \in 1..Len(hist) : hist[k].request_id = id /\ hist[k].status = "denied"

\* C27: is_approved(id) returns true exactly for a request that was
\* auto-approved or resolved by approve, and so false for a pending, a
\* denied and an unknown id; a request becomes approved only by an
\* auto-approving request_approval or by an approve of its pending id, stays
\* approved, and never becomes approved once it was denied.
C27_ApprovedIffApproved ==
    [][/\ (svc_call'.op = "is_approved"
             => LET id == svc_call'.request_id
                IN  /\ svc_call'.approved <=> WasApproved(history, id)
                    /\ id \in PendingIds(pending_requests) => ~svc_call'.approved
                    /\ WasDenied(history, id) => ~svc_call'.approved
                    /\ id > request_count => ~svc_call'.approved)
       /\ \A id \in RequestIds :
             /\ WasApproved(history, id) => WasApproved(history', id)
             /\ WasDenied(history, id) => ~WasApproved(history', id)
             /\ (~WasApproved(history, id) /\ WasApproved(history', id))
                   => \/ /\ svc_call'.op = "request_approval"
                         /\ svc_call'.request.request_id = id
                         /\ svc_call'.request.status = "auto_approved"
                      \/ /\ svc_call'.op = "approve"
                         /\ svc_call'.request_id = id
                         /\ id \in PendingIds(pending_requests)]_vars

\* C27 witness: is_approved returned false for a denied request while
\* another request is approved.
C27_Witness ==
    /\ svc_call.op = "is_approved"
    /\ ~svc_call.approved
    /\ WasDenied(history, svc_call.request_id)
    /\ \E id \in RequestIds : WasApproved(history, id)

\* A record that answers a check of the type and scope at time t.
Answers(r, type, scope, t) ==
    /\ r.operation_type = type
    /\ r.scope \in {scope, "*"}
    /\ r.granted
    /\ (r.expires_at = None \/ r.expires_at >= t)

\* The consent ids stored.
StoredIds(cs) == {r.consent_id : r \in cs}

\* C28: check returns true exactly when a stored record has the type, the
\* scope or "*", granted set and no expiry or one not earlier than now, and
\* check changes nothing; list_consents returns every stored record, the
\* expired too; and a consent id leaves the store only by a revoke of it.
C28_CheckIgnoresExpired ==
    [][/\ (time_now' = time_now /\ svc_call'.op = "check")
             => /\ svc_call'.valid <=>
                       \E r \in consents :
                           Answers(r, svc_call'.operation_type, svc_call'.scope,
                                   time_now)
                /\ consents' = consents
       /\ (time_now' = time_now /\ svc_call'.op = "list_consents")
             => svc_call'.listed = consents /\ consents' = consents
       /\ \A id \in StoredIds(consents) \ StoredIds(consents') :
             svc_call'.op = "revoke" /\ svc_call'.consent_id = id]_vars

\* C28 witness: check returned false while the store holds a granted record
\* of the type and scope that has expired.
C28_Witness ==
    /\ svc_call.op = "check"
    /\ ~svc_call.valid
    /\ \E r \in consents :
          /\ r.operation_type = svc_call.operation_type
          /\ r.scope = svc_call.scope
          /\ r.granted
          /\ r.expires_at # None
          /\ r.expires_at < time_now

\* The pairs in the queue.
QueuedPairs(q) == {q[k] : k \in 1..Len(q)}

\* C29: dequeue on a non-empty queue returns the id of the queued pair with
\* the highest priority, the one enqueued first among those of that priority
\* (mission ids are numbered in enqueue order), and takes that pair out of
\* the queue; dequeue on an empty queue returns None and leaves it empty.
C29_HighestPriorityFirst ==
    [][svc_call'.op = "dequeue"
        => IF mission_queue = <<>>
           THEN svc_call'.mission_id = None /\ mission_queue' = <<>>
           ELSE \E x \in QueuedPairs(mission_queue) :
                   /\ \A y \in QueuedPairs(mission_queue) :
                         x[1] > y[1] \/ (x[1] = y[1] /\ x[2] <= y[2])
                   /\ svc_call'.mission_id = x[2]
                   /\ QueuedPairs(mission_queue') = QueuedPairs(mission_queue) \ {x}
                   /\ Len(mission_queue') = Len(mission_queue) - 1]_vars

\* C29 witness: mission 2 was dequeued before mission 1, of lower priority
\* and enqueued earlier, and before mission 3, of its own priority and
\* enqueued later.
C29_Witness ==
    /\ svc_call.op = "dequeue"
    /\ svc_call.mission_id = 2
    /\ mission_queue = <<<<1, 3>>, <<0, 1>>>>

\* C30: check_quota changes no quota, and for a type that has a quota it
\* returns true exactly when used + amount <= limit.
C30_CheckQuotaIsPure ==
    [][svc_call'.op = "check_quota"
        => /\ quotas' = quotas
           /\ LET q == quotas[svc_call'.resource_type]
              IN  q.configured
                     => (svc_call'.allowed <=> q.used + svc_call'.amount <= q.limit)]_vars

\* C30 witness: a check of an amount equal to the limit of its type was
\* allowed.
C30_Witness ==
    /\ svc_call.op = "check_quota"
    /\ quotas[svc_call.resource_type].configured
    /\ svc_call.allowed
    /\ svc_call.amount = quotas[svc_call.resource_type].limit

\* C31: start() is called only for a mission that holds a resource
\* allocation (which admission grants after the quota check).
C31_AdmissionBeforeStart ==
    [][(call'.op = "start" /\ clock' # clock) => allocations # {}]_vars

\* The keywords that occur in each word of the operation texts when the
\* case of the letters is disregarded.
KeywordsIn ==
    [w \in Words |->
        CASE w = "File"    -> {"file"}
          [] w = "path"    -> {"path"}
          [] w = "UPLOAD"  -> {"upload"}
          [] w = "Select"  -> {"select"}
          [] w = "Shell"   -> {"shell"}
          [] w = "EVAL"    -> {"eval"}
          [] w = "Execute" -> {"execute", "exec"}
          [] OTHER         -> {}]

\* A keyword of the category is in the operation text.
Matches(operation, category) ==
    \E w \in 1..Len(operation) :
        KeywordsIn[operation[w]] \cap CATEGORY_KEYWORDS[category] # {}

\* C32: classify lists exactly the matched categories, each once, matching
\* without regard to case; the level is high when system or code_execution
\* is among them, otherwise medium when more than two are, otherwise low,
\* and low with an empty list when none matched.
C32_ClassifyLevelRule ==
    svc_call.op = "classify"
       => LET cats    == svc_call.categories
              matched == {c \in DOMAIN CATEGORY_KEYWORDS : Matches(arg, c)}
          IN  /\ {cats[k] : k \in 1..Len(cats)} = matched
              /\ Len(cats) = Cardinality(matched)
              /\ svc_call.level =
                    (IF "system" \in matched \/ "code_execution" \in matched
                     THEN "high"
                     ELSE IF Cardinality(matched) > 2 THEN "medium" ELSE "low")
              /\ (matched = {} => svc_call.level = "low" /\ cats = <<>>)

\* C32 witness: an operation written in capitals and matching three
\* harmless categories was classified medium.
C32_Witness ==
    /\ svc_call.op = "classify"
    /\ svc_call.level = "medium"
    /\ svc_call.categories = <<"filesystem", "network", "data_access">>
    /\ \E w \in 1..Len(arg) : arg[w] = "UPLOAD"

\* C33: when a critical or high-risk pattern is appended to a code sample,
\* the score assessed in the same context does not go down and
\* requires_approval does not go from true to false; every score is within
\* [0, 1].
C33_AssessMonotonic ==
    [][(svc_call.op = "assess" /\ svc_call'.op = "assess")
          => /\ svc_call'.score \in 0..100
             /\ (\E q \in CRITICAL_PATTERNS \cup HIGH_RISK_PATTERNS :
                     arg'.code = arg.code \o <<q>>)
                   => /\ svc_call'.score >= svc_call.score
                      /\ svc_call.requires_approval => svc_call'.requires_approval]_vars

\* C33 witness: a sample whose score was already at the top had a pattern
\* appended and was assessed again.
C33_Witness ==
    /\ svc_call.op = "assess"
    /\ svc_call.score = 100
    /\ Len(arg.code) = 3
    /\ arg.code[3] = "eval"
    /\ arg.code[1] = "rm -rf"
    /\ arg.code[2] = "CTYPES"
    /\ arg.capabilities = {"network", "filesystem"}

\* The denied modules a code text calls.
ModulesUsed(code) ==
    {m \in DANGEROUS_MODULES :
        \/ m = "os" /\ "os.system(" \in code
        \/ m = "subprocess" /\ "subprocess.run(" \in code}

\* The dangerous patterns a code text matches.
PatternsMatched(code) ==
    {q \in {DANGEROUS_PATTERNS[k] : k \in 1..Len(DANGEROUS_PATTERNS)} :
        \/ q = DANGEROUS_PATTERNS[1] /\ code \cap {"'rm -rf /'", "'RM  -RF /'"} # {}
        \/ q = DANGEROUS_PATTERNS[6] /\ "eval (" \in code}

\* C34: check_code returns False exactly when it returns violations; the
\* violations name every dangerous pattern the code matches; and for code
\* that uses a denied module and matches a pattern they name the module too.
C34_ViolationsNameModuleAndPattern ==
    svc_call.op = "check_code"
       => LET named == {svc_call.violations[k].text :
                           k \in 1..Len(svc_call.violations)}
          IN  /\ svc_call.passed <=> svc_call.violations = <<>>
              /\ PatternsMatched(arg) \subseteq named
              /\ PatternsMatched(arg) # {} => ModulesUsed(arg) \subseteq named

\* C35 (its first part): execute() of a runner never raises; every call ends
\* with a result object.
C35_ExecuteNeverRaises ==
    svc_call.op = "execute" => ~svc_call.raised

\* The nodes of the plan with the given status.
WithStatus(st) == {i \in 1..Len(nodes) : nodes[i].status = st}

C37_FailedPatchRollsBack ==
    (svc_call.op = "apply_patch" /\ (svc_call.rejected \/ svc_call.refused))
       => /\ workspace_file.content = svc_call.before
          /\ ~svc_call.patched
          /\ svc_call.raised

\* C40 (what makes the loop of execute_node end): every pass of the file
\* loop leaves fewer files to write.
C40_FileLoopShrinks ==
    [][(composer.at = "node" /\ composer'.at = "node")
          => Len(nodes'[composer.node].files_created) - composer'.index
               < Len(nodes[composer.node].files_created) - composer.index]_vars

\* The tables are well formed: every request created is pending or in the
\* history and not both, pending entries have status pending, history
\* entries have another status, and no id is twice in the history.
TablesWellFormed ==
    /\ \A id \in 1..request_count :
          (id \in PendingIds(pending_requests)) # (id \in HistoryIds(history))
    /\ PendingIds(pending_requests) \cup HistoryIds(history) \subseteq 1..request_count
    /\ \A r \in pending_requests : r.status = "pending"
    /\ \A k \in 1..Len(history) : history[k].status # "pending"
    /\ \A j, k \in 1..Len(history) :
          history[j].request_id = history[k].request_id => j = k

\* C38: after any sequence of request_approval / approve / deny calls the
\* pending table and the history are well formed, and every call leaves the
\* history it found as a prefix of the history it leaves: no entry is
\* removed, moved or changed.
C38_PendingAndHistoryDisjoint ==
    /\ []TablesWellFormed
    /\ [][/\ Len(history') >= Len(history)
          /\ SubSeq(history', 1, Len(history)) = history]_vars

\* C38 witness: of two requests made, the first was denied and is the only
\* history entry while the second is still pending.
C38_Witness ==
    /\ request_count = 2
    /\ Len(history) = 1
    /\ history[1].request_id = 1
    /\ history[1].status = "denied"
    /\ PendingIds(pending_requests) = {2}

\* The handlers a delivery called, in the order of the calls.
Called(d) == [k \in 1..Len(d.invoked) |-> d.invoked[k].handler]

\* C39: when a worker processes an event it took from the queue, the
\* handlers called are the ones subscribed to the event's type and to all
\* types at that step, whatever was subscribed when publish() was called.
C39_HandlersAtProcessingTime ==
    [][\A w \in 1..Len(worker_threads) :
          (/\ worker_threads[w].at = "processing"
           /\ Len(worker_threads') = Len(worker_threads)
           /\ worker_threads'[w].at = "top")
             => /\ delivery'.event = worker_threads[w].event
                /\ Called(delivery') =
                      listeners[worker_threads[w].event.type] \o wildcard_listeners]_vars

\* C39 witness: handler 1 was subscribed to the event's type when the event
\* was published and unsubscribed before the worker processed it, handler 2
\* was subscribed in between; the delivery called handler 2 only.
C39_Witness ==
    /\ delivery.event.id = 1
    /\ publish_log = [id |-> 1, handlers |-> {1}]
    /\ Called(delivery) = <<2>>
    /\ event_queue = <<>>
    /\ Len(worker_threads) = 1

====
